---- MODULE Spec2Model ----
(***************************************************************************)
(* LocalForge workflow engine (localforge/engine/runner.py):               *)
(* WorkflowContext, its {{...}} resolver, and WorkflowRunner.run with its  *)
(* failure policies, refinement loop, run store calls and cleanup.         *)
(*                                                                         *)
(* Text is a sequence of symbols.  The symbols "{", "}", ".", " " and the  *)
(* punctuation of Python's repr are single characters; every other symbol  *)
(* stands for a run of ordinary characters (a word).                       *)
(***************************************************************************)
EXTENDS Integers, Sequences, FiniteSets, TLC

\* ------------------------------------------------------------ bounds
\* Deepest nesting of _execute_refinement activations before the
\* interpreter's recursion limit is hit.
MaxDepth == 3

\* ------------------------------------------------------------ values
\* Python values that cross the engine: None, bool, int, str, list, dict.
VNone == [t |-> "none"]
VBool(b) == [t |-> "bool", v |-> b]
VInt(n) == [t |-> "int", v |-> n]
VStr(s) == [t |-> "str", v |-> s]
VList(l) == [t |-> "list", v |-> l]
VDict(d) == [t |-> "dict", v |-> d]

\* The empty mapping {} (a function with an empty domain).
EmptyMap == [k \in {} |-> VNone]

\* Python truthiness, as used by `not outputs.get("passed", True)` and
\* `if outputs.get("passed", False)`.
Truthy(x) ==
  CASE x.t = "none" -> FALSE
    [] x.t = "bool" -> x.v
    [] x.t = "int" -> x.v # 0
    [] x.t = "str" -> Len(x.v) > 0
    [] x.t = "list" -> Len(x.v) > 0
    [] x.t = "dict" -> DOMAIN x.v # {}

\* dict.get(key, default)
DictGet(d, key, default) == IF key \in DOMAIN d THEN d[key] ELSE default

\* Keys of a mapping in insertion order are not modelled; repr lists them
\* in a fixed order chosen here.
RECURSIVE SetToSeq(_)
SetToSeq(S) ==
  IF S = {} THEN <<>>
  ELSE LET x == CHOOSE y \in S : TRUE IN <<x>> \o SetToSeq(S \ {x})

\* repr(x) / str(x) of a value, as text.  str and repr differ on strings
\* only (repr quotes them); inside containers Python always uses repr.
RECURSIVE Repr(_)
RECURSIVE ReprItems(_)
RECURSIVE ReprPairs(_, _)
Repr(x) ==
  CASE x.t = "none" -> <<"None">>
    [] x.t = "bool" -> IF x.v THEN <<"True">> ELSE <<"False">>
    [] x.t = "int" -> <<ToString(x.v)>>
    [] x.t = "str" -> <<"'">> \o x.v \o <<"'">>
    [] x.t = "list" -> <<"[">> \o ReprItems(x.v) \o <<"]">>
    [] x.t = "dict" -> <<"{">> \o ReprPairs(x.v, SetToSeq(DOMAIN x.v)) \o <<"}">>
ReprItems(l) ==
  IF l = <<>> THEN <<>>
  ELSE IF Len(l) = 1 THEN Repr(l[1])
  ELSE Repr(l[1]) \o <<",", " ">> \o ReprItems(Tail(l))
ReprPairs(d, ks) ==
  IF ks = <<>> THEN <<>>
  ELSE LET one == <<"'", ks[1], "'", ":", " ">> \o Repr(d[ks[1]])
       IN IF Len(ks) = 1 THEN one
          ELSE one \o <<",", " ">> \o ReprPairs(d, Tail(ks))

Str(x) == IF x.t = "str" THEN x.v ELSE Repr(x)

\* TRUE iff text `part` occurs in text `whole` (Python's `part in whole`).
Contains(whole, part) ==
  \E i \in 0..(Len(whole) - Len(part)) :
    \A j \in 1..Len(part) : whole[i + j] = part[j]

\* ------------------------------------------------------------ resolver
\* Result of an evaluation that raised.
Raised == [t |-> "raised"]

\* hasattr / getattr on a value that is no mapping.  Of the attributes
\* Python's scalars carry, the model knows one: "real" of int and bool.
HasAttr(obj, key) == obj.t \in {"int", "bool"} /\ key = <<"real">>
GetAttr(obj, key) ==
  IF obj.t = "bool" THEN VInt(IF obj.v THEN 1 ELSE 0) ELSE obj

\* WorkflowContext._get_nested: walk keys through nested mappings; a key
\* missing from a mapping gives None, a lookup off a value that is no
\* mapping and has no such attribute gives None.
RECURSIVE GetNested(_, _)
GetNested(obj, keys) ==
  IF keys = <<>> THEN obj
  ELSE IF obj.t = "dict"
       THEN GetNested(
              IF Len(keys[1]) = 1 /\ keys[1][1] \in DOMAIN obj.v
                THEN obj.v[keys[1][1]] ELSE VNone,
              Tail(keys))
       ELSE IF HasAttr(obj, keys[1])
       THEN GetNested(GetAttr(obj, keys[1]), Tail(keys))
       ELSE VNone

\* str.split("."): the parts of a text between "." symbols.
RECURSIVE SplitDots(_)
SplitDots(s) ==
  IF \A i \in 1..Len(s) : s[i] # "." THEN <<s>>
  ELSE LET d == CHOOSE i \in 1..Len(s) :
                  s[i] = "." /\ \A j \in 1..(i - 1) : s[j] # "."
       IN <<SubSeq(s, 1, d - 1)>> \o SplitDots(SubSeq(s, d + 1, Len(s)))

\* str.strip(): drop leading and trailing blanks.
RECURSIVE Strip(_)
Strip(s) ==
  IF s = <<>> THEN s
  ELSE IF s[1] = " " THEN Strip(Tail(s))
  ELSE IF s[Len(s)] = " " THEN Strip(SubSeq(s, 1, Len(s) - 1))
  ELSE s

\* The text _evaluate returns for a step that has no output yet:
\* f"{{{{steps.{step_id}...}}}}".
PendingStepText(step_id) ==
  <<"{", "{", "steps", ".">> \o step_id \o <<".", ".", ".", "}", "}">>

\* WorkflowContext._evaluate on the stripped expression; c is the context
\* (inputs, config, templates, steps_output, run_id, run_dir, temp_dir,
\* name).  Raised stands for ValueError / IndexError.
Evaluate(expr, c) ==
  LET parts == SplitDots(expr)
      root == parts[1]
      rest == Tail(parts)
  IN CASE root = <<"inputs">> -> GetNested(VDict(c.inputs), rest)
       [] root = <<"config">> -> GetNested(VDict(c.config), rest)
       [] root = <<"steps">> ->
            IF rest = <<>> THEN Raised
            ELSE IF Len(rest[1]) = 1 /\ rest[1][1] \in DOMAIN c.steps_output
                 THEN GetNested(c.steps_output[rest[1][1]], Tail(rest))
                 ELSE VStr(PendingStepText(rest[1]))
       [] root = <<"templates">> ->
            IF rest # <<>> /\ Len(rest[1]) = 1 /\ rest[1][1] \in DOMAIN c.templates
              THEN c.templates[rest[1][1]]
              ELSE VDict(c.templates)
       [] root = <<"workflow">> ->
            IF rest = <<>> THEN Raised
            ELSE IF rest[1] = <<"run_id">> THEN VStr(<<c.run_id>>)
            ELSE IF rest[1] = <<"run_dir">> THEN VStr(c.run_dir)
            ELSE IF rest[1] = <<"name">> THEN VStr(c.name)
            ELSE Raised
       [] root = <<"temp_dir">> -> VStr(c.temp_dir)
       [] root = <<"timestamp">> -> VStr(<<"now">>)
       [] OTHER -> Raised

\* The regular expression \{\{([^}]+)\}\} tried at position i of s: the
\* index of the last symbol of the match, or 0 when there is no match.
RECURSIVE RunLen(_, _)
RunLen(s, i) ==
  IF i > Len(s) \/ s[i] = "}" THEN 0 ELSE 1 + RunLen(s, i + 1)

MatchEnd(s, i) ==
  IF i + 1 <= Len(s) /\ s[i] = "{" /\ s[i + 1] = "{"
  THEN LET n == RunLen(s, i + 2)
           j == i + 2 + n
       IN IF n >= 1 /\ j + 1 <= Len(s) /\ s[j] = "}" /\ s[j + 1] = "}"
          THEN j + 1 ELSE 0
  ELSE 0

\* replacer(match): the stringified value, or the match itself when the
\* evaluation raised.
Replacer(m, c) ==
  LET expr == Strip(SubSeq(m, 3, Len(m) - 2))
      r == Evaluate(expr, c)
  IN IF r = Raised THEN m ELSE Str(r)

\* re.sub(pattern, replacer, s): leftmost non-overlapping matches.
RECURSIVE ResolveFrom(_, _, _)
ResolveFrom(s, i, c) ==
  IF i > Len(s) THEN <<>>
  ELSE LET e == MatchEnd(s, i)
       IN IF e = 0 THEN <<s[i]>> \o ResolveFrom(s, i + 1, c)
          ELSE Replacer(SubSeq(s, i, e), c) \o ResolveFrom(s, e + 1, c)

ResolveString(s, c) == ResolveFrom(s, 1, c)

\* resolve that ends in `return str(value)`: whatever is not a string is
\* turned into one.
ResolveStringifies(x, c) ==
  IF x.t = "str" THEN VStr(ResolveString(x.v, c)) ELSE VStr(Str(x))

\* WorkflowContext.resolve on a value.
RECURSIVE Resolve(_, _)
Resolve(x, c) ==
  CASE x.t = "str" -> VStr(ResolveString(x.v, c))
    [] x.t = "dict" -> VDict([k \in DOMAIN x.v |-> Resolve(x.v[k], c)])
    [] x.t = "list" -> VList([i \in 1..Len(x.v) |-> Resolve(x.v[i], c)])
    [] OTHER -> x

\* ------------------------------------------------------------ recipes
\* A placeholder {{<expr>}} as text.
Placeholder(expr) == <<"{", "{">> \o expr \o <<"}", "}">>

\* A refinement block: a mapping (nonempty = it is a truthy dict) with an
\* optional "steps" list.
NoBlock == [nonempty |-> FALSE, steps |-> <<>>]
Block(ss) == [nonempty |-> TRUE, steps |-> ss]

\* A step of a recipe.  retry_count is <<>> when the key is absent and <<n>>
\* when it is n, and so are options and default_action; steps are the
\* substeps of a refinement-typed step.
MkStep(id, type, hasTool, gate, on_failure, rc, refinement, trigger, inputs, ss) ==
  [id |-> id, type |-> type, hasTool |-> hasTool, gate |-> gate,
   on_failure |-> on_failure, retry_count |-> rc, refinement |-> refinement,
   trigger |-> trigger, inputs |-> inputs, steps |-> ss,
   options |-> <<>>, default_action |-> <<>>]

\* An approval gate with its options and default_action.
ApprovalStep(id, options, default_action) ==
  [MkStep(id, "approval_gate", FALSE, FALSE, "abort", <<>>, NoBlock, <<>>,
          VDict(EmptyMap), <<>>)
     EXCEPT !.options = options, !.default_action = default_action]

ToolStep(id, gate, on_failure, rc, refinement, inputs) ==
  MkStep(id, "tool", TRUE, gate, on_failure, rc, refinement, <<>>, inputs, <<>>)

\* Raw inputs used by the recipes: a literal with an input placeholder, and
\* a reference to the output "val" of step s1.
InWho == VDict([src |-> VStr(<<"x ">> \o Placeholder(<<"inputs", ".", "who">>))])
InS1Val ==
  VDict([src |-> VStr(Placeholder(<<"steps", ".", "s1", ".", "outputs", ".", "val">>))])

\* Refinement substeps.
SubPlain == ToolStep("r", FALSE, "abort", <<>>, NoBlock, InWho)
SubInner == ToolStep("q", FALSE, "skip", <<>>, NoBlock, InS1Val)
\* a substep that itself refines, with its own inline block
SubNested == ToolStep("r", TRUE, "refine", <<>>, Block(<<SubInner>>), InWho)
\* a substep that itself refines and has no inline block
SubRefine == ToolStep("r", TRUE, "refine", <<>>, NoBlock, InWho)

\* The second step of every recipe: reads the first step's output.
Consumer == ToolStep("s2", FALSE, "abort", <<>>, NoBlock, InS1Val)

\* A refinement-typed step whose trigger names s1.
TriggerStep(trigger) ==
  MkStep("rf", "refinement", FALSE, FALSE, "abort", <<>>, NoBlock, trigger,
         VDict(EmptyMap), <<SubPlain>>)

\* A refinement-typed step with its own id, trigger and substeps.
TriggerStepWith(id, trigger, ss) ==
  MkStep(id, "refinement", FALSE, FALSE, "abort", <<>>, NoBlock, trigger,
         VDict(EmptyMap), ss)

\* First steps that do not use the refinement loop.
PlainFirstSteps ==
  { ToolStep("s1", TRUE, "abort", <<>>, NoBlock, InWho),
    ToolStep("s1", FALSE, "abort", <<>>, NoBlock, InWho),
    ToolStep("s1", TRUE, "skip", <<>>, NoBlock, InWho),
    ToolStep("s1", FALSE, "skip", <<>>, NoBlock, InWho),
    ToolStep("s1", TRUE, "retry", <<>>, NoBlock, InS1Val),
    ToolStep("s1", FALSE, "retry", <<2>>, NoBlock, InS1Val),
    ToolStep("s1", TRUE, "ignore", <<>>, NoBlock, InWho),
    ApprovalStep("s1", <<>>, <<>>),
    ApprovalStep("s1", << <<"yes", "no">> >>, <<>>),
    ApprovalStep("s1", << <<"yes", "no">> >>, <<"no">>),
    ApprovalStep("s1", << <<>> >>, <<"no">>),
    MkStep("s1", "tool", FALSE, FALSE, "abort", <<>>, NoBlock, <<>>, InWho, <<>>) }

\* First steps with on_failure refine: with an inline block, with a nested
\* inline block, and without one.
RefineInline == ToolStep("s1", TRUE, "refine", <<>>, Block(<<SubPlain>>), InS1Val)
RefineNested == ToolStep("s1", TRUE, "refine", <<>>, Block(<<SubNested>>), InS1Val)
RefineBare == ToolStep("s1", TRUE, "refine", <<>>, NoBlock, InS1Val)
\* an inline block whose substep differs from those of the other blocks
RefineInlineQ == ToolStep("s1", TRUE, "refine", <<>>, Block(<<SubInner>>), InS1Val)
\* an inline block of two substeps
RefineTwo ==
  ToolStep("s1", TRUE, "refine", <<>>, Block(<<SubPlain, SubInner>>), InS1Val)
\* gate false: only a raising tool enters the loop
RefineNoGate == ToolStep("s1", FALSE, "refine", <<>>, Block(<<SubPlain>>), InS1Val)

\* Cleanup blocks.
CleanupNone == [on_success |-> <<>>, on_failure |-> <<>>]
CleanupSome ==
  [on_success |->
     << [action |-> "preserve",
         path |-> VStr(Placeholder(<<"workflow", ".", "run_dir">>))],
        [action |-> "delete", path |-> VStr(Placeholder(<<"temp_dir">>))] >>,
   on_failure |->
     << [action |-> "delete", path |-> VStr(Placeholder(<<"temp_dir">>))],
        [action |-> "preserve",
         path |-> VStr(Placeholder(<<"workflow", ".", "run_dir">>))] >>]

\* config mappings: max_iterations absent (the default applies), 0, 1, 2.
Configs ==
  { EmptyMap, [max_iterations |-> VInt(0)], [max_iterations |-> VInt(1)],
    [max_iterations |-> VInt(2)] }

\* What load_recipe reads.  yaml_ok: the file is well-formed YAML (safe_load
\* returns the document; otherwise it raises); has_steps: the document has a
\* "steps" key (without one recipe.get("steps", []) is the empty list).
MkRecipe(steps, refinement, config, cleanup) ==
  [name |-> <<"demo">>, steps |-> steps, refinement |-> refinement,
   config |-> config, templates |-> EmptyMap, cleanup |-> cleanup,
   yaml_ok |-> TRUE, has_steps |-> TRUE]

\* A recipe without a "steps" key, and a file that is not well-formed.
NoStepsRecipe(cleanup) ==
  [MkRecipe(<<>>, NoBlock, EmptyMap, cleanup) EXCEPT !.has_steps = FALSE]
Malformed ==
  [MkRecipe(<<>>, NoBlock, EmptyMap, CleanupNone)
     EXCEPT !.yaml_ok = FALSE, !.has_steps = FALSE]

\* The recipes the runner is given.
Recipes ==
  { MkRecipe(<<f, Consumer>>, NoBlock, EmptyMap, c) :
      f \in PlainFirstSteps, c \in {CleanupNone, CleanupSome} }
  \cup
  { MkRecipe(<<f, Consumer>>, NoBlock, cfg, CleanupNone) :
      f \in {RefineInline, RefineNested, RefineNoGate}, cfg \in Configs }
  \cup
  { MkRecipe(<<RefineBare, Consumer>>, b, cfg, CleanupNone) :
      b \in {NoBlock, Block(<<>>), Block(<<SubPlain>>), Block(<<SubRefine>>)},
      cfg \in {EmptyMap, [max_iterations |-> VInt(2)]} }
  \cup
  { MkRecipe(<<RefineBare, TriggerStep(t), Consumer>>, b, [max_iterations |-> VInt(1)],
             CleanupNone) :
      t \in { <<"s1", ".", "failed">>, <<"s1">>, <<"s2">> },
      b \in {NoBlock, Block(<<SubRefine>>)} }
  \cup
  { MkRecipe(<<RefineTwo, Consumer>>, NoBlock, cfg, CleanupNone) :
      cfg \in { [max_iterations |-> VInt(1)], [max_iterations |-> VInt(2)] } }
  \cup
  \* every place a block can be in at once, and two steps with a trigger
  { MkRecipe(<<f, TriggerStepWith("rf2", <<"s1">>, ss), TriggerStep(<<"s1", ".", "failed">>),
               Consumer>>,
             Block(<<SubRefine>>), [max_iterations |-> VInt(1)], CleanupNone) :
      f \in {RefineInlineQ, RefineBare}, ss \in { <<>>, <<SubInner>> } }
  \cup
  { NoStepsRecipe(c) : c \in {CleanupNone, CleanupSome} }
  \cup
  { Malformed }

\* ctx.inputs of every run.
RunInputs == [who |-> VStr(<<"world">>)]

\* What a tool handler may do when dispatched: raise, or return a mapping.
ToolErrors == { <<"E1">>, <<"E2">> }
ToolOutputs ==
  { [passed |-> VBool(TRUE), val |-> VStr(<<"a">>)],
    [passed |-> VBool(FALSE), failures |-> VList(<<VStr(<<"too small">>)>>),
     val |-> VInt(7)],
    [passed |-> VInt(0), val |-> VNone],
    [val |-> VStr(<<"b">>)] }
Outcomes ==
  { [raised |-> TRUE, err |-> e, out |-> EmptyMap] : e \in ToolErrors }
  \cup { [raised |-> FALSE, err |-> <<>>, out |-> o] : o \in ToolOutputs }

\* Run ids (the first 8 characters of a uuid4), as single symbols.  The
\* context draws id1; the store draws its own, the same or another.
RunIds == { "id1", "id2" }

\* ------------------------------------------------------------ state
VARIABLES
  recipe,            \* the loaded recipe (load_recipe)
  auto_approve,      \* WorkflowRunner.auto_approve
  pc,                \* position of run(): start, loop, exec, failed, cleanup, done
  tracked,           \* db and db_run_id are set
  stepIdx,           \* index of run()'s for loop over recipe["steps"]
  stack,             \* activations of _execute_step / _execute_refinement
  run_id,            \* ctx.run_id
  dir_id,            \* the id ctx.run_dir was built from
  steps_output,      \* ctx.steps_output
  errors,            \* ctx.errors
  iteration_count,   \* ctx.iteration_count
  refinement_active, \* ctx.refinement_active
  runRecord,         \* the run's row of workflow_runs
  stepRecords,       \* the run's rows of step_executions, by step id
  fs,                \* directories that exist
  runError,          \* the exception run() caught (str(e))
  mode,              \* which cleanup list is being processed
  cidx,              \* index of _cleanup's for loop
  result,            \* the mapping run() returned
  finished,          \* history: indices of recipe steps that have ended
  dispatched,        \* history: ids of the steps whose tool was dispatched
  lastCall,          \* history: the latest tool_registry.execute call
  returned,          \* history: the outputs each step's tool returned last
  cleaned,           \* history: the cleanup actions processed, and how each ended
  ctx_inputs,        \* ctx.inputs
  asked,             \* history: what each approval gate that prompted read
  begun,             \* history: ids of the steps _execute_step was called for
  workflow_runs,     \* PersistenceLayer: the rows of workflow_runs
  step_executions,   \* PersistenceLayer: the rows of step_executions
  rowid,             \* PersistenceLayer: step_executions' AUTOINCREMENT counter
  storeRet,          \* the latest store call, with what it returned
  tools,             \* ToolRegistry.tools, in insertion order
  load_errors,       \* ToolRegistry.load_errors
  regRet,            \* the latest registry call, with what it returned
  modules,           \* the *_tool.py files of the tools package, in glob order
  midx,              \* index of _discover_tools' for loop
  registered,        \* history: per tool name, the handler registered last
  lit                \* a value given to resolve, with what came back

vars ==
  << recipe, auto_approve, pc, tracked, stepIdx, stack, run_id, dir_id,
     steps_output, errors, iteration_count, refinement_active, runRecord,
     stepRecords, fs, runError, mode, cidx, result, finished, dispatched,
     lastCall, returned, cleaned, ctx_inputs, asked, begun, workflow_runs,
     step_executions, rowid,
     storeRet, tools, load_errors, regRet, modules, midx, registered, lit >>

\* The state of the store, the registry and the resolver taken alone.
libVars ==
  << workflow_runs, step_executions, rowid, storeRet, tools, load_errors,
     regRet, modules, midx, registered, lit >>

NoErr == <<>>
NoCall == [id |-> "", inputs |-> VNone, attempt |-> 0, err |-> NoErr]

\* ctx.run_dir = base / run_id and ctx.temp_dir = run_dir / "temp", as text.
RunDirOf(id) == <<"runs/", id>>
TempDirOf(id) == RunDirOf(id) \o <<"/temp">>

\* The context the resolver reads, with steps_output so.
CtxOf(so) ==
  [inputs |-> ctx_inputs, config |-> recipe.config, templates |-> recipe.templates,
   steps_output |-> so, run_id |-> run_id, run_dir |-> RunDirOf(dir_id),
   temp_dir |-> TempDirOf(dir_id), name |-> recipe.name]

\* The part of the state that one step of the interpreter rewrites.
Cur ==
  [stack |-> stack, so |-> steps_output, ic |-> iteration_count,
   ra |-> refinement_active, recs |-> stepRecords, pc |-> pc, idx |-> stepIdx,
   err |-> runError, fin |-> finished, disp |-> dispatched, call |-> lastCall,
   ret |-> returned, asked |-> asked, begun |-> begun]

Commit(s) ==
  /\ stack' = s.stack
  /\ steps_output' = s.so
  /\ iteration_count' = s.ic
  /\ refinement_active' = s.ra
  /\ stepRecords' = s.recs
  /\ pc' = s.pc
  /\ stepIdx' = s.idx
  /\ runError' = s.err
  /\ finished' = s.fin
  /\ dispatched' = s.disp
  /\ lastCall' = s.call
  /\ returned' = s.ret
  /\ asked' = s.asked
  /\ begun' = s.begun

Top(stk) == stk[Len(stk)]
Pop(stk) == SubSeq(stk, 1, Len(stk) - 1)
PopFrame(s) == [s EXCEPT !.stack = Pop(@)]
SetTop(s, f) == [s EXCEPT !.stack[Len(s.stack)] = f]

\* Number of _execute_refinement activations on the stack.
Depth(stk) == Cardinality({ i \in 1..Len(stk) : stk[i].fn = "refine" })

\* An activation record; the fields a function does not use stay at their
\* initial values.  attempts and first are history: the number of dispatches
\* this activation has made and the inputs of its first one.
StepFrame(step, resolved) ==
  [fn |-> "step", step |-> step, phase |-> "dispatch", resolved |-> resolved,
   i |-> 0, last_error |-> NoErr, attempts |-> 0, first |-> VNone,
   rsteps |-> <<>>, N |-> 0, iter |-> 0, sub |-> 0]
RefineFrame(step, rsteps, n) ==
  [fn |-> "refine", step |-> step, phase |-> "loop", resolved |-> VNone,
   i |-> 0, last_error |-> NoErr, attempts |-> 0, first |-> VNone,
   rsteps |-> rsteps, N |-> n, iter |-> 1, sub |-> 1]

\* ------------------------------------------------------------ run store
\* json.loads(json.dumps(x, default=str)): what the store gives back for a
\* value it was given.
RECURSIVE Json(_)
Json(x) ==
  CASE x.t = "dict" -> VDict([k \in DOMAIN x.v |-> Json(x.v[k])])
    [] x.t = "list" -> VList([i \in 1..Len(x.v) |-> Json(x.v[i])])
    [] x.t = "path" -> VStr(x.v)
    [] OTHER -> x

\* start_step: INSERT OR REPLACE of a fresh running row.
StartStepRec(recs, id) ==
  [k \in DOMAIN recs \cup {id} |->
     IF k = id
     THEN [status |-> "running", outputs |-> VDict(EmptyMap), error |-> NoErr]
     ELSE recs[k]]

\* complete_step / fail_step: UPDATE of the row, if there is one.
CompleteStepRec(recs, id, outputs) ==
  IF id \in DOMAIN recs
  THEN [recs EXCEPT ![id].status = "completed", ![id].outputs = Json(outputs)]
  ELSE recs
\* fail_step that updates nothing.
FailStepRecNoUpdate(recs, id, e) == recs

FailStepRec(recs, id, e) ==
  IF id \in DOMAIN recs
  THEN [recs EXCEPT ![id].status = "failed", ![id].error = e]
  ELSE recs

\* ------------------------------------------------------------ scheduler
DefaultMaxIterations == 3
DefaultRetryCount == 1

\* The texts of the errors the engine raises.
GateMsgNoFailures(failures) == <<"Validation gate failed">>
GateMsg(failures) == <<"Validation gate failed: ">> \o Str(failures)
NoRefinementMsg(id) ==
  <<"Validation failed and no refinement defined for step ", id>>
NoStepsMsg(id) == <<"Refinement config for ", id, " has no steps">>
ExhaustedMsg(n) ==
  <<"Refinement exhausted ", ToString(n), " iterations without passing validation">>
RecursionMsg == <<"maximum recursion depth exceeded">>

\* set_step_output storing the outputs without the {"outputs": ...} wrapper.
SetStepOutputFlat(s, id, outputs) ==
  [s EXCEPT !.so =
     [k \in DOMAIN s.so \cup {id} |-> IF k = id THEN VDict(outputs) ELSE s.so[k]]]

\* ctx.set_step_output
SetStepOutput(s, id, outputs) ==
  [s EXCEPT !.so =
     [k \in DOMAIN s.so \cup {id} |->
        IF k = id THEN VDict([outputs |-> VDict(outputs)]) ELSE s.so[k]]]

\* History: tool_registry.execute(tool, action, inputs, ctx) was called for
\* step id as the attempt-th dispatch of this activation and had outcome o.
RecordCall(s, id, inputs, attempt, o) ==
  [s EXCEPT !.disp = @ \cup {id},
            !.call = [id |-> id, inputs |-> inputs, attempt |-> attempt,
                      err |-> o.err],
            !.ret = IF o.raised THEN @
                    ELSE [k \in DOMAIN @ \cup {id} |-> IF k = id THEN o.out ELSE @[k]]]

\* StepReturn with the `raise` of run()'s inner except block left out: the
\* failure is recorded and the loop goes on.
StepReturnNoRaise(s, step, e) ==
  IF s.stack = <<>>
  THEN IF e = NoErr
       THEN [s EXCEPT !.recs = IF tracked
                                THEN CompleteStepRec(@, step.id,
                                       DictGet(s.so, step.id, VDict(EmptyMap)))
                                ELSE @,
                      !.fin = @ \cup {s.idx},
                      !.idx = @ + 1,
                      !.pc = "loop"]
       ELSE [s EXCEPT !.recs = IF tracked THEN FailStepRec(@, step.id, e) ELSE @,
                      !.err = e,
                      !.idx = @ + 1,
                      !.pc = "loop"]
  ELSE [s EXCEPT !.stack[Len(s.stack)].sub = @ + 1]

\* StepReturn in which a substep's error ends the iteration's substep loop:
\* the substeps after it are passed over.
StepReturnEndsSubsteps(s, step, e) ==
  IF s.stack = <<>>
  THEN IF e = NoErr
       THEN [s EXCEPT !.recs = IF tracked
                                THEN CompleteStepRec(@, step.id,
                                       DictGet(s.so, step.id, VDict(EmptyMap)))
                                ELSE @,
                      !.fin = @ \cup {s.idx},
                      !.idx = @ + 1,
                      !.pc = "loop"]
       ELSE [s EXCEPT !.recs = IF tracked THEN FailStepRec(@, step.id, e) ELSE @,
                      !.err = e,
                      !.pc = "failed"]
  ELSE IF e = NoErr THEN [s EXCEPT !.stack[Len(s.stack)].sub = @ + 1]
  ELSE [s EXCEPT !.stack[Len(s.stack)].sub = Len(s.stack[Len(s.stack)].rsteps) + 1]

\* An _execute_step activation for `step` has ended, normally (e = NoErr) or
\* by raising e; s.stack is the caller's stack.  The caller is run()'s loop
\* (complete_step or fail_step, then the next step or the except block) or
\* the substep loop of _execute_refinement (the error is logged).
StepReturn(s, step, e) ==
  IF s.stack = <<>>
  THEN IF e = NoErr
       THEN [s EXCEPT !.recs = IF tracked
                                THEN CompleteStepRec(@, step.id,
                                       DictGet(s.so, step.id, VDict(EmptyMap)))
                                ELSE @,
                      !.fin = @ \cup {s.idx},
                      !.idx = @ + 1,
                      !.pc = "loop"]
       ELSE [s EXCEPT !.recs = IF tracked THEN FailStepRec(@, step.id, e) ELSE @,
                      !.err = e,
                      !.pc = "failed"]
  ELSE [s EXCEPT !.stack[Len(s.stack)].sub = @ + 1]

\* An _execute_refinement activation has ended; s.stack is the stack of the
\* _execute_step activation that called it, which returns or lets the error
\* pass.
RefineReturn(s, e) == StepReturn(PopFrame(s), Top(s.stack).step, e)

\* FindRefinement that looks at the recipe's block before the steps with a
\* trigger.
FindRefinementRecipeFirst(failed_step) ==
  LET hits == { i \in 1..Len(recipe.steps) :
                  /\ recipe.steps[i].type = "refinement"
                  /\ \/ recipe.steps[i].trigger = <<failed_step.id, ".", "failed">>
                     \/ recipe.steps[i].trigger = <<failed_step.id>> }
      first == CHOOSE i \in hits : \A j \in hits : i <= j
  IN IF failed_step.refinement.nonempty THEN failed_step.refinement
     ELSE IF recipe.refinement.nonempty THEN recipe.refinement
     ELSE IF hits # {} THEN Block(recipe.steps[first].steps)
     ELSE recipe.refinement

\* The refinement block for a failing step: inline, else the first
\* refinement-typed step whose trigger names it, else the recipe's.
FindRefinement(failed_step) ==
  LET hits == { i \in 1..Len(recipe.steps) :
                  /\ recipe.steps[i].type = "refinement"
                  /\ \/ recipe.steps[i].trigger = <<failed_step.id, ".", "failed">>
                     \/ recipe.steps[i].trigger = <<failed_step.id>> }
      first == CHOOSE i \in hits : \A j \in hits : i <= j
  IN IF failed_step.refinement.nonempty THEN failed_step.refinement
     ELSE IF hits # {} THEN Block(recipe.steps[first].steps)
     ELSE recipe.refinement

MaxIterations == DictGet(recipe.config, "max_iterations", VInt(DefaultMaxIterations)).v

\* _execute_refinement up to its first substep; s.stack is the stack of the
\* calling _execute_step activation.  The call itself fails when the
\* recursion limit is reached.
EnterRefinement(s, failed_step) ==
  LET cfg == FindRefinement(failed_step)
      n == MaxIterations
      id == failed_step.id
      zero == [k \in DOMAIN s.ic \cup {id} |-> IF k = id THEN 0 ELSE s.ic[k]]
  IN IF Depth(s.stack) >= MaxDepth THEN RefineReturn(s, RecursionMsg)
     ELSE IF ~cfg.nonempty THEN RefineReturn([s EXCEPT !.ra = FALSE], NoRefinementMsg(id))
     ELSE IF cfg.steps = <<>> THEN RefineReturn([s EXCEPT !.ra = FALSE], NoStepsMsg(id))
     ELSE IF n <= 0
          THEN RefineReturn([s EXCEPT !.ra = FALSE, !.ic = zero], ExhaustedMsg(n))
     ELSE [s EXCEPT !.ra = TRUE,
                    !.ic = [zero EXCEPT ![id] = 1],
                    !.stack = Append(@, RefineFrame(failed_step, cfg.steps, n))]

RetryCount(step) ==
  IF step.retry_count = <<>> THEN DefaultRetryCount ELSE step.retry_count[1]

\* The except block of _execute_step for the first dispatch; s.stack ends
\* with this activation's frame.
FailurePolicy(s, e) ==
  LET step == Top(s.stack).step
  IN CASE step.on_failure = "abort" -> StepReturn(PopFrame(s), step, e)
       [] step.on_failure = "skip" -> StepReturn(PopFrame(s), step, NoErr)
       [] step.on_failure = "retry" ->
            IF RetryCount(step) <= 0 THEN StepReturn(PopFrame(s), step, e)
            ELSE SetTop(s, [Top(s.stack) EXCEPT !.phase = "retry", !.i = 0,
                                                !.last_error = e])
       [] step.on_failure = "refine" -> EnterRefinement(s, step)
       [] OTHER -> StepReturn(PopFrame(s), step, NoErr)

\* The gate check of the first dispatch: gate is set and passed is falsy
\* (a missing passed counts as passed).
GateFails(step, out) ==
  step.gate /\ ~Truthy(DictGet(out, "passed", VBool(TRUE)))

\* The first dispatch of a step returned outcome o.
AfterDispatch(s, o) ==
  LET step == Top(s.stack).step
      s1 == SetStepOutput(s, step.id, o.out)
  IN IF o.raised THEN FailurePolicy(s, o.err)
     ELSE IF GateFails(step, o.out)
          THEN FailurePolicy(s1, GateMsg(DictGet(o.out, "failures", VList(<<>>))))
     ELSE StepReturn(PopFrame(s1), step, NoErr)

\* A dispatch of the retry loop returned outcome o.
AfterRetry(s, o) ==
  LET f == Top(s.stack)
      step == f.step
  IN IF ~o.raised
     THEN StepReturn(PopFrame(SetStepOutput(s, step.id, o.out)), step, NoErr)
     ELSE IF f.i + 1 >= RetryCount(step)
          THEN StepReturn(PopFrame(s), step, o.err)
     ELSE SetTop(s, [f EXCEPT !.i = @ + 1, !.last_error = o.err])

\* NextIteration leaving refinement_active set on exhaustion.
NextIterationKeepsFlag(s) ==
  LET f == Top(s.stack)
  IN IF f.iter >= f.N
     THEN RefineReturn(PopFrame(s), ExhaustedMsg(f.N))
     ELSE [SetTop(s, [f EXCEPT !.iter = @ + 1, !.sub = 1])
             EXCEPT !.ic[f.step.id] = f.iter + 1]

\* The end of a refinement iteration that did not pass: the next iteration,
\* or exhaustion.
NextIteration(s) ==
  LET f == Top(s.stack)
  IN IF f.iter >= f.N
     THEN RefineReturn([PopFrame(s) EXCEPT !.ra = FALSE], ExhaustedMsg(f.N))
     ELSE [SetTop(s, [f EXCEPT !.iter = @ + 1, !.sub = 1])
             EXCEPT !.ic[f.step.id] = f.iter + 1]

\* The re-validation check of the refinement loop (a missing passed counts
\* as not passed).
RefinePasses(out) == Truthy(DictGet(out, "passed", VBool(FALSE)))

\* AfterRedispatch without the early return on a passing result.
AfterRedispatchIgnoresPass(s, o) ==
  IF o.raised THEN NextIteration(s)
  ELSE NextIteration(SetStepOutput(s, Top(s.stack).step.id, o.out))

\* The re-dispatch of the failing step returned outcome o.
AfterRedispatch(s, o) ==
  LET f == Top(s.stack)
      s1 == SetStepOutput(s, f.step.id, o.out)
  IN IF o.raised THEN NextIteration(s)
     ELSE IF RefinePasses(o.out)
          THEN RefineReturn([PopFrame(s1) EXCEPT !.ra = FALSE], NoErr)
     ELSE NextIteration(s1)

\* What the user types at an approval gate; "eof" is EOFError or
\* KeyboardInterrupt, "" is an empty line.
ApprovalInputs == { "eof", "", "approve", "reject", "maybe" }

\* The options of an approval gate and the default _handle_approval_gate
\* selects: step.get("default_action", options[0]).
DefaultOptions == <<"approve", "reject">>
OptionsOf(step) == IF step.options = <<>> THEN DefaultOptions ELSE step.options[1]
DefaultOf(step) ==
  IF step.default_action = <<>> THEN OptionsOf(step)[1] ELSE step.default_action[1]
IndexErrorMsg == <<"list index out of range">>

\* ApprovalOutput that always takes the first option as the default.
ApprovalOutputFirstOption(step, choice) ==
  IF auto_approve \/ choice = "eof"
  THEN [selection |-> VStr(<<OptionsOf(step)[1]>>), auto |-> VBool(TRUE)]
  ELSE [selection |-> VStr(<<IF choice = "" THEN OptionsOf(step)[1] ELSE choice>>),
        auto |-> VBool(FALSE)]

\* The answer of an approval gate to what was read: input().strip() or
\* default, auto false; the default and auto true when nothing was read.
ApprovalOutput(step, choice) ==
  IF auto_approve \/ choice = "eof"
  THEN [selection |-> VStr(<<DefaultOf(step)>>), auto |-> VBool(TRUE)]
  ELSE [selection |-> VStr(<<IF choice = "" THEN DefaultOf(step) ELSE choice>>),
        auto |-> VBool(FALSE)]

\* An approval gate that raises on the selection reject.
HandleApprovalGateRejects(s, step, choice) ==
  IF OptionsOf(step) = <<>> THEN StepReturn(s, step, IndexErrorMsg)
  ELSE IF ApprovalOutput(step, choice).selection = VStr(<<"reject">>)
       THEN StepReturn(s, step, <<"rejected">>)
  ELSE StepReturn(
         SetStepOutput(
           [s EXCEPT !.asked = IF auto_approve THEN @
                               ELSE Append(@, [id |-> step.id, read |-> choice])],
           step.id, ApprovalOutput(step, choice)),
         step, NoErr)

\* _handle_approval_gate, called by _execute_step outside its try block.
\* options[0] is evaluated before the lookup of default_action, so an empty
\* options list raises IndexError whether default_action is set or not.
HandleApprovalGate(s, step, choice) ==
  IF OptionsOf(step) = <<>> THEN StepReturn(s, step, IndexErrorMsg)
  ELSE StepReturn(
         SetStepOutput(
           [s EXCEPT !.asked = IF auto_approve THEN @
                               ELSE Append(@, [id |-> step.id, read |-> choice])],
           step.id, ApprovalOutput(step, choice)),
         step, NoErr)

\* _execute_step up to its first dispatch; s.stack is the caller's stack.
ExecuteStep(s, step, choice) ==
  LET b == [s EXCEPT !.begun = @ \cup {step.id}]
  IN CASE step.type = "approval_gate" -> HandleApprovalGate(b, step, choice)
       [] step.type = "refinement" -> StepReturn(b, step, NoErr)
       [] ~step.hasTool -> StepReturn(b, step, NoErr)
       [] OTHER ->
            [b EXCEPT !.stack = Append(@, StepFrame(step, Resolve(step.inputs, CtxOf(b.so)))),
                      !.pc = "exec"]

\* ------------------------------------------------------------ cleanup
\* Path p is path q or lies under it.
IsUnder(p, q) == Len(q) <= Len(p) /\ SubSeq(p, 1, Len(q)) = q

\* CleanupEffect in which a filesystem call that raises has removed the
\* directory all the same.
CleanupEffectDespiteFailure(d, action, failed) ==
  CASE action.action = "delete" ->
         LET path == Resolve(action.path, CtxOf(steps_output)).v
         IN IF path \in d THEN { p \in d : ~IsUnder(p, path) } ELSE d
    [] action.action = "move" ->
         LET src == Resolve(action.source, CtxOf(steps_output)).v
             dst == Resolve(action.destination, CtxOf(steps_output)).v
         IN IF src \in d
            THEN { p \in d : ~IsUnder(p, src) } \cup {dst}
            ELSE d
    [] OTHER -> d

\* One action of a cleanup list on the directories d; failed = the
\* filesystem call raised (the error is logged and the action has no effect).
CleanupEffect(d, action, failed) ==
  IF failed THEN d
  ELSE CASE action.action = "delete" ->
              LET path == Resolve(action.path, CtxOf(steps_output)).v
              IN IF path \in d THEN { p \in d : ~IsUnder(p, path) } ELSE d
         [] action.action = "move" ->
              LET src == Resolve(action.source, CtxOf(steps_output)).v
                  dst == Resolve(action.destination, CtxOf(steps_output)).v
              IN IF src \in d
                 THEN { p \in d : ~IsUnder(p, src) } \cup {dst}
                 ELSE d
         [] OTHER -> d

ListOf(m) == IF m = "success" THEN recipe.cleanup.on_success
             ELSE recipe.cleanup.on_failure
CleanupList == ListOf(mode)

\* ------------------------------------------------------------ actions
ctxVars == <<steps_output, iteration_count, refinement_active>>
histVars == <<asked, begun>>
stepVars ==
  << stack, steps_output, iteration_count, refinement_active, stepRecords, pc,
     stepIdx, runError, finished, dispatched, lastCall, returned >>
setupVars == <<recipe, auto_approve, ctx_inputs, tracked, run_id, dir_id>>

\* run() when load_recipe raises: the error leaves run() before a context
\* exists.
LoadRecipeRaises ==
  /\ pc = "start"
  /\ ~recipe.yaml_ok
  /\ pc' = "raised"
  /\ UNCHANGED << libVars, cleaned, setupVars, stepIdx, stack, ctxVars, histVars,
                  errors, runRecord, stepRecords, fs, runError, mode, cidx,
                  result, finished, dispatched, lastCall, returned >>

\* run() up to its loop: the context and its directories are created and
\* the run is recorded, unless persistence is off or start_run fails.
StartRun ==
  /\ pc = "start"
  /\ recipe.yaml_ok
  /\ \E ctxId \in {"id1"}, dbId \in RunIds, t \in BOOLEAN :
       /\ dir_id' = ctxId
       /\ tracked' = t
       /\ run_id' = IF t THEN dbId ELSE ctxId
       /\ runRecord' = IF t THEN [status |-> "running", error |-> NoErr,
                                  outputs |-> VDict(EmptyMap)]
                       ELSE runRecord
       /\ fs' = { RunDirOf(ctxId), TempDirOf(ctxId) }
  /\ pc' = "loop"
  /\ UNCHANGED << libVars, cleaned, recipe, auto_approve, ctx_inputs, histVars,
                  stepIdx, stack,
                  steps_output, errors,
                  iteration_count, refinement_active, stepRecords, runError,
                  mode, cidx, result, finished, dispatched, lastCall,
                  returned >>

\* EnterStep that resolves a step's inputs in place: the resolved values are
\* written back into the recipe.
EnterStepInPlace ==
  /\ pc = "loop"
  /\ stepIdx <= Len(recipe.steps)
  /\ LET step == recipe.steps[stepIdx]
         s0 == [Cur EXCEPT !.recs = IF tracked THEN StartStepRec(@, step.id) ELSE @]
     IN \E choice \in (IF step.type = "approval_gate" /\ ~auto_approve
                       THEN ApprovalInputs ELSE {"eof"}) :
          Commit(ExecuteStep(s0, step, choice))
  /\ recipe' = [recipe EXCEPT !.steps[stepIdx].inputs =
                                Resolve(@, CtxOf(steps_output))]
  /\ UNCHANGED << libVars, cleaned, auto_approve, ctx_inputs, tracked, run_id,
                  dir_id, errors, runRecord, fs, mode, cidx, result >>

\* One turn of run()'s loop: start_step, then _execute_step up to its first
\* dispatch (or to its end, for a step that dispatches nothing).
EnterStep ==
  /\ pc = "loop"
  /\ stepIdx <= Len(recipe.steps)
  /\ LET step == recipe.steps[stepIdx]
         s0 == [Cur EXCEPT !.recs = IF tracked THEN StartStepRec(@, step.id) ELSE @]
     IN \E choice \in (IF step.type = "approval_gate" /\ ~auto_approve
                       THEN ApprovalInputs ELSE {"eof"}) :
          Commit(ExecuteStep(s0, step, choice))
  /\ UNCHANGED << libVars, cleaned, setupVars, errors, runRecord, fs, mode, cidx, result >>

\* The first dispatch of the step on top of the stack returns or raises.
Dispatch ==
  /\ pc = "exec"
  /\ Top(stack).fn = "step"
  /\ Top(stack).phase = "dispatch"
  /\ LET f == Top(stack)
     IN \E o \in Outcomes :
          Commit(AfterDispatch(
                   RecordCall(SetTop(Cur, [f EXCEPT !.attempts = 1,
                                                    !.first = f.resolved]),
                              f.step.id, f.resolved, 1, o), o))
  /\ UNCHANGED << libVars, cleaned, setupVars, errors, runRecord, fs, mode, cidx, result >>

\* One dispatch of the retry loop returns or raises.
RetryDispatch ==
  /\ pc = "exec"
  /\ Top(stack).fn = "step"
  /\ Top(stack).phase = "retry"
  /\ LET f == Top(stack)
     IN \E o \in Outcomes :
          Commit(AfterRetry(
                   RecordCall(SetTop(Cur, [f EXCEPT !.attempts = @ + 1]),
                              f.step.id, f.resolved, f.attempts + 1, o), o))
  /\ UNCHANGED << libVars, cleaned, setupVars, errors, runRecord, fs, mode, cidx, result >>

\* The refinement loop calls _execute_step on its next substep.
RefineSubstep ==
  /\ pc = "exec"
  /\ Top(stack).fn = "refine"
  /\ Top(stack).sub <= Len(Top(stack).rsteps)
  /\ LET step == Top(stack).rsteps[Top(stack).sub]
     IN \E choice \in (IF step.type = "approval_gate" /\ ~auto_approve
                       THEN ApprovalInputs ELSE {"eof"}) :
          Commit(ExecuteStep(Cur, step, choice))
  /\ UNCHANGED << libVars, cleaned, setupVars, errors, runRecord, fs, mode, cidx, result >>

\* After the substeps the loop resolves the failing step's inputs again
\* and dispatches it again.
RefineRedispatch ==
  /\ pc = "exec"
  /\ Top(stack).fn = "refine"
  /\ Top(stack).sub > Len(Top(stack).rsteps)
  /\ LET f == Top(stack)
     IN \E o \in Outcomes :
          Commit(AfterRedispatch(
                   RecordCall(Cur, f.step.id,
                              Resolve(f.step.inputs, CtxOf(steps_output)), 0, o), o))
  /\ UNCHANGED << libVars, cleaned, setupVars, errors, runRecord, fs, mode, cidx, result >>

\* The loop is over: run() turns to the on_success cleanup list.
EndLoop ==
  /\ pc = "loop"
  /\ stepIdx > Len(recipe.steps)
  /\ pc' = "cleanup"
  /\ mode' = "success"
  /\ cidx' = 1
  /\ UNCHANGED << libVars, cleaned, setupVars, stepIdx, stack, ctxVars, histVars, errors, runRecord,
                  stepRecords, fs, runError, result, finished, dispatched,
                  lastCall, returned >>

\* HandleFailure without the fail_run call.
HandleFailureNoRecord ==
  /\ pc = "failed"
  /\ errors' = Append(errors, runError)
  /\ pc' = "cleanup"
  /\ mode' = "failure"
  /\ cidx' = 1
  /\ UNCHANGED << libVars, cleaned, setupVars, stepIdx, stack, ctxVars, histVars, stepRecords, fs, runError,
                  result, finished, dispatched, lastCall, returned, runRecord >>

\* run()'s except block up to fail_run.
HandleFailure ==
  /\ pc = "failed"
  /\ errors' = Append(errors, runError)
  /\ runRecord' = IF tracked
                  THEN [runRecord EXCEPT !.status = "failed", !.error = runError]
                  ELSE runRecord
  /\ pc' = "cleanup"
  /\ mode' = "failure"
  /\ cidx' = 1
  /\ UNCHANGED << libVars, cleaned, setupVars, stepIdx, stack, ctxVars, histVars, stepRecords, fs, runError,
                  result, finished, dispatched, lastCall, returned >>

\* _cleanup without the try/except around each action: a failing action
\* ends the list and reaches run()'s handler.
CleanupActionRaises ==
  /\ pc = "cleanup"
  /\ cidx <= Len(CleanupList)
  /\ \E failed \in BOOLEAN :
       /\ fs' = CleanupEffect(fs, CleanupList[cidx], failed)
       /\ cleaned' = Append(cleaned, [list |-> mode, idx |-> cidx, failed |-> failed])
       /\ IF failed
          THEN /\ pc' = IF mode = "success" THEN "failed" ELSE "done"
               /\ runError' = <<"cleanup error">>
               /\ cidx' = cidx
          ELSE /\ pc' = pc
               /\ runError' = runError
               /\ cidx' = cidx + 1
  /\ UNCHANGED << libVars, setupVars, stepIdx, stack, ctxVars, histVars, errors, runRecord,
                  stepRecords, mode, result, finished, dispatched,
                  lastCall, returned >>

\* _cleanup processes one action of its list; an action that raises is
\* logged and the loop goes on.
CleanupAction ==
  /\ pc = "cleanup"
  /\ cidx <= Len(CleanupList)
  /\ \E failed \in BOOLEAN :
       /\ fs' = CleanupEffect(fs, CleanupList[cidx], failed)
       /\ cleaned' = Append(cleaned, [list |-> mode, idx |-> cidx, failed |-> failed])
  /\ cidx' = cidx + 1
  /\ UNCHANGED << libVars, setupVars, stepIdx, stack, ctxVars, histVars, errors, runRecord,
                  stepRecords, runError, mode, result, pc, finished, dispatched,
                  lastCall, returned >>

\* The mapping run() returns after a successful run.
SuccessResult ==
  [success |-> VBool(TRUE), run_id |-> VStr(<<run_id>>),
   outputs |-> VDict(steps_output), run_dir |-> VStr(RunDirOf(dir_id))]

\* The failure mapping with an empty errors list instead of ctx.errors.
FailureResultNoErrors ==
  [success |-> VBool(FALSE), run_id |-> VStr(<<run_id>>),
   error |-> VStr(runError), errors |-> VList(<<>>),
   run_dir |-> VStr(RunDirOf(dir_id))]

\* The mapping run() returns from its except block.
FailureResult ==
  [success |-> VBool(FALSE), run_id |-> VStr(<<run_id>>),
   error |-> VStr(runError),
   errors |-> VList([i \in 1..Len(errors) |-> VStr(errors[i])]),
   run_dir |-> VStr(RunDirOf(dir_id))]

\* The error of a store call that fails (sqlite3.OperationalError).
StoreErrorMsg == <<"database is locked">>

\* The end of run(): complete_run and the success result, or the failure
\* result.  complete_run is inside run()'s try block: when it raises, the
\* except block takes over after the on_success list has been processed.
Finish ==
  /\ pc = "cleanup"
  /\ cidx > Len(CleanupList)
  /\ \E raised \in (IF mode = "success" /\ tracked THEN BOOLEAN ELSE {FALSE}) :
       IF raised
       THEN /\ pc' = "failed"
            /\ runError' = StoreErrorMsg
            /\ UNCHANGED << runRecord, result >>
       ELSE /\ IF mode = "success"
               THEN /\ runRecord' = IF tracked
                                    THEN [runRecord EXCEPT
                                            !.status = "completed",
                                            !.outputs = Json(VDict(steps_output))]
                                    ELSE runRecord
                    /\ result' = SuccessResult
               ELSE /\ runRecord' = runRecord
                    /\ result' = FailureResult
            /\ pc' = "done"
            /\ runError' = runError
  /\ UNCHANGED << libVars, cleaned, setupVars, stepIdx, stack, ctxVars, histVars, errors, stepRecords, fs,
                  mode, cidx, finished, dispatched, lastCall, returned >>

\* The store, the registry and the resolver before anything has used them.
NoRet == [op |-> "none"]
LibIdle ==
  /\ workflow_runs = {}
  /\ step_executions = {}
  /\ rowid = 0
  /\ storeRet = NoRet
  /\ tools = <<>>
  /\ load_errors = EmptyMap
  /\ regRet = NoRet
  /\ modules = <<>>
  /\ midx = 0
  /\ registered = EmptyMap
  /\ lit = NoRet

Init ==
  /\ recipe \in Recipes
  /\ auto_approve \in (IF \E i \in 1..Len(recipe.steps) :
                              recipe.steps[i].type = "approval_gate"
                        THEN BOOLEAN ELSE {FALSE})
  /\ pc = "start"
  /\ tracked = FALSE
  /\ stepIdx = 1
  /\ stack = <<>>
  /\ run_id = ""
  /\ dir_id = ""
  /\ steps_output = EmptyMap
  /\ errors = <<>>
  /\ iteration_count = EmptyMap
  /\ refinement_active = FALSE
  /\ runRecord = [status |-> "none", error |-> NoErr, outputs |-> VDict(EmptyMap)]
  /\ stepRecords = EmptyMap
  /\ fs = {}
  /\ runError = NoErr
  /\ mode = "none"
  /\ cidx = 0
  /\ result = EmptyMap
  /\ finished = {}
  /\ dispatched = {}
  /\ lastCall = NoCall
  /\ returned = EmptyMap
  /\ cleaned = <<>>
  /\ ctx_inputs = RunInputs
  /\ asked = <<>>
  /\ begun = {}
  /\ LibIdle

Next ==
  \/ LoadRecipeRaises
  \/ StartRun
  \/ EnterStep
  \/ Dispatch
  \/ RetryDispatch
  \/ RefineSubstep
  \/ RefineRedispatch
  \/ EndLoop
  \/ HandleFailure
  \/ CleanupAction
  \/ Finish

Spec == Init /\ [][Next]_vars

\* ------------------------------------------------------------ run store
\* PersistenceLayer (engine/persistence.py) taken alone: its tables are sets
\* of rows, and its methods may be called in any order with any arguments.

\* A pathlib.Path, a value json cannot serialise by itself.
VPath(p) == [t |-> "path", v |-> p]

\* json.dumps(x) without a default: it raises TypeError unless x is made of
\* JSON values only.
RECURSIVE IsJson(_)
IsJson(x) ==
  CASE x.t = "dict" -> \A k \in DOMAIN x.v : IsJson(x.v[k])
    [] x.t = "list" -> \A i \in 1..Len(x.v) : IsJson(x.v[i])
    [] x.t = "path" -> FALSE
    [] OTHER -> TRUE

\* Arguments of the store calls.
Projects == { VNone, VStr(<<"p1">>) }
StatsProjects == { VNone, VStr(<<"p1">>), VStr(<<"p2">>) }
StoreInputs ==
  { VDict([who |-> VStr(<<"world">>)]), VDict([src |-> VPath(<<"in.png">>)]) }
StoreOutputs ==
  { VDict([val |-> VInt(7)]), VDict([file |-> VPath(<<"out.png">>)]) }
StepInputs == { VDict([src |-> VPath(<<"in.png">>)]) }
StoreErrors == { <<"boom">> }
StepKeys == { "s1", "s2" }

\* start_run raises: TypeError from json.dumps(inputs), or IntegrityError
\* from the PRIMARY KEY on workflow_runs.id.  This variant has no key.
StartRunRaisesNoKey(runs, id, inputs) == ~IsJson(inputs)
StartRunRaises(runs, id, inputs) ==
  ~IsJson(inputs) \/ \E r \in runs : r.id = id

\* start_run's INSERT INTO workflow_runs.
InsertRun(runs, id, project_id, inputs) ==
  runs \cup { [id |-> id, project_id |-> project_id, status |-> "running",
               inputs |-> Json(inputs), outputs |-> VDict(EmptyMap),
               error_message |-> VNone] }

\* complete_run's and fail_run's UPDATE ... WHERE id = ?.
UpdateRunCompleted(runs, id, outputs, status) ==
  { IF r.id = id THEN [r EXCEPT !.status = status, !.outputs = Json(outputs)]
    ELSE r : r \in runs }
UpdateRunFailed(runs, id, e) ==
  { IF r.id = id THEN [r EXCEPT !.status = "failed", !.error_message = VStr(e)]
    ELSE r : r \in runs }

\* SQL's SUM(CASE WHEN ... THEN 1 ELSE 0 END) over the rows sel, counting
\* those in hit: NULL when sel has no row.
SqlSum(sel, hit) == IF sel = {} THEN VNone ELSE VInt(Cardinality(sel \cap hit))

\* get_stats(project_id).
GetStats(runs, project_id) ==
  LET sel == IF Truthy(project_id)
             THEN { r \in runs : r.project_id = project_id }
             ELSE runs
  IN [runs |->
        [total |-> VInt(Cardinality(sel)),
         completed |-> SqlSum(sel, { r \in runs : r.status = "completed" }),
         failed |-> SqlSum(sel, { r \in runs : r.status = "failed" })]]

stepTables == <<step_executions, rowid>>
runnerVars ==
  << recipe, auto_approve, pc, tracked, stepIdx, stack, run_id, dir_id,
     steps_output, errors, iteration_count, refinement_active, runRecord,
     stepRecords, fs, runError, mode, cidx, result, finished, dispatched,
     lastCall, returned, cleaned, ctx_inputs, asked, begun >>
registryVars == <<tools, load_errors, regRet, modules, midx, registered>>

start_run ==
  \E id \in RunIds, project_id \in Projects, inputs \in StoreInputs :
    /\ IF StartRunRaises(workflow_runs, id, inputs)
       THEN /\ workflow_runs' = workflow_runs
            /\ storeRet' = [op |-> "start_run", raised |-> TRUE, ret |-> VNone,
                            args |-> [id |-> id, project_id |-> project_id,
                                      inputs |-> inputs]]
       ELSE /\ workflow_runs' = InsertRun(workflow_runs, id, project_id, inputs)
            /\ storeRet' = [op |-> "start_run", raised |-> FALSE, ret |-> id,
                            args |-> [id |-> id, project_id |-> project_id,
                                      inputs |-> inputs]]
    /\ UNCHANGED << runnerVars, stepTables, registryVars, lit >>

complete_run ==
  \E id \in RunIds, outputs \in StoreOutputs :
    /\ workflow_runs' = UpdateRunCompleted(workflow_runs, id, outputs, "completed")
    /\ storeRet' = [op |-> "complete_run", raised |-> FALSE, ret |-> VNone,
                    args |-> [id |-> id, outputs |-> outputs]]
    /\ UNCHANGED << runnerVars, stepTables, registryVars, lit >>

fail_run ==
  \E id \in RunIds, e \in StoreErrors :
    /\ workflow_runs' = UpdateRunFailed(workflow_runs, id, e)
    /\ storeRet' = [op |-> "fail_run", raised |-> FALSE, ret |-> VNone,
                    args |-> [id |-> id, error_message |-> e]]
    /\ UNCHANGED << runnerVars, stepTables, registryVars, lit >>

get_stats ==
  \E project_id \in StatsProjects :
    /\ storeRet' = [op |-> "get_stats", raised |-> FALSE,
                    ret |-> GetStats(workflow_runs, project_id),
                    args |-> [project_id |-> project_id]]
    /\ UNCHANGED << runnerVars, workflow_runs, stepTables, registryVars, lit >>

\* The state in which nothing runs a recipe.
RunnerIdle ==
  /\ recipe = MkRecipe(<<>>, NoBlock, EmptyMap, CleanupNone)
  /\ auto_approve = FALSE
  /\ pc = "idle"
  /\ tracked = FALSE
  /\ stepIdx = 0
  /\ stack = <<>>
  /\ run_id = ""
  /\ dir_id = ""
  /\ steps_output = EmptyMap
  /\ errors = <<>>
  /\ iteration_count = EmptyMap
  /\ refinement_active = FALSE
  /\ runRecord = [status |-> "none", error |-> NoErr, outputs |-> VDict(EmptyMap)]
  /\ stepRecords = EmptyMap
  /\ fs = {}
  /\ runError = NoErr
  /\ mode = "none"
  /\ cidx = 0
  /\ result = EmptyMap
  /\ finished = {}
  /\ dispatched = {}
  /\ lastCall = NoCall
  /\ returned = EmptyMap
  /\ cleaned = <<>>
  /\ ctx_inputs = RunInputs
  /\ asked = <<>>
  /\ begun = {}

InitRuns == RunnerIdle /\ LibIdle
NextRuns ==
  \/ start_run
  \/ complete_run
  \/ fail_run
  \/ get_stats
SpecRuns == InitRuns /\ [][NextRuns]_vars

\* start_step with a plain INSERT and no UNIQUE(run_id, step_id).
InsertStepKeep(rows, n, run, step, inputs) ==
  rows \cup { [id |-> n, run_id |-> run, step_id |-> step, status |-> "running",
               inputs |-> Json(inputs), outputs |-> VDict(EmptyMap),
               error_message |-> VNone] }

\* start_step's INSERT OR REPLACE INTO step_executions: the row that holds
\* (run_id, step_id) is deleted and a fresh row, with the next AUTOINCREMENT
\* id n and the column defaults, is inserted.
InsertOrReplaceStep(rows, n, run, step, inputs) ==
  { r \in rows : ~(r.run_id = run /\ r.step_id = step) }
  \cup { [id |-> n, run_id |-> run, step_id |-> step, status |-> "running",
          inputs |-> Json(inputs), outputs |-> VDict(EmptyMap),
          error_message |-> VNone] }

\* complete_step with WHERE step_id = ? only.
UpdateStepCompletedAnyRun(rows, run, step, outputs) ==
  { IF r.step_id = step
    THEN [r EXCEPT !.status = "completed", !.outputs = Json(outputs)]
    ELSE r : r \in rows }

\* complete_step's and fail_step's UPDATE ... WHERE run_id = ? AND step_id = ?.
UpdateStepCompleted(rows, run, step, outputs) ==
  { IF r.run_id = run /\ r.step_id = step
    THEN [r EXCEPT !.status = "completed", !.outputs = Json(outputs)]
    ELSE r : r \in rows }
UpdateStepFailed(rows, run, step, e) ==
  { IF r.run_id = run /\ r.step_id = step
    THEN [r EXCEPT !.status = "failed", !.error_message = VStr(e)]
    ELSE r : r \in rows }

\* get_completed_steps(run_id): the dict comprehension over the selected
\* rows, in rowid order (a later row overwrites an earlier key).
GetCompletedSteps(rows, run) ==
  LET hit == { r \in rows : r.run_id = run /\ r.status = "completed" }
  IN [k \in { r.step_id : r \in hit } |->
        (CHOOSE r \in hit :
           r.step_id = k /\ \A q \in hit : q.step_id = k => q.id <= r.id).outputs]

\* The largest id the AUTOINCREMENT counter is followed to.
MaxRowId == 3

start_step ==
  \E run \in RunIds, step \in StepKeys, inputs \in StepInputs :
    /\ rowid < MaxRowId
    /\ rowid' = rowid + 1
    /\ step_executions' =
         InsertOrReplaceStep(step_executions, rowid + 1, run, step, inputs)
    /\ storeRet' = [op |-> "start_step", raised |-> FALSE, ret |-> VNone,
                    args |-> [run_id |-> run, step_id |-> step, inputs |-> inputs],
                    replaced |-> { r \in step_executions :
                                    r.run_id = run /\ r.step_id = step }]
    /\ UNCHANGED << runnerVars, workflow_runs, registryVars, lit >>

complete_step ==
  \E run \in RunIds, step \in StepKeys, outputs \in StoreOutputs :
    /\ step_executions' = UpdateStepCompleted(step_executions, run, step, outputs)
    /\ storeRet' = [op |-> "complete_step", raised |-> FALSE, ret |-> VNone,
                    args |-> [run_id |-> run, step_id |-> step, outputs |-> outputs]]
    /\ UNCHANGED << runnerVars, workflow_runs, rowid, registryVars, lit >>

fail_step ==
  \E run \in RunIds, step \in StepKeys, e \in StoreErrors :
    /\ step_executions' = UpdateStepFailed(step_executions, run, step, e)
    /\ storeRet' = [op |-> "fail_step", raised |-> FALSE, ret |-> VNone,
                    args |-> [run_id |-> run, step_id |-> step, error_message |-> e]]
    /\ UNCHANGED << runnerVars, workflow_runs, rowid, registryVars, lit >>

get_completed_steps ==
  \E run \in RunIds :
    /\ storeRet' = [op |-> "get_completed_steps", raised |-> FALSE,
                    ret |-> GetCompletedSteps(step_executions, run),
                    args |-> [run_id |-> run]]
    /\ UNCHANGED << runnerVars, workflow_runs, stepTables, registryVars, lit >>

InitSteps == RunnerIdle /\ LibIdle
NextSteps ==
  \/ start_step
  \/ complete_step
  \/ fail_step
  \/ get_completed_steps
SpecSteps == InitSteps /\ [][NextSteps]_vars

\* ------------------------------------------------------------ tool registry
\* ToolRegistry (engine/runner.py) taken alone.  A tool name is text;
\* self.tools is a dict, kept here as the sequence of its items in insertion
\* order.

ToolNames(t) == { t[i].name : i \in 1..Len(t) }
HandlerOf(t, name) == t[CHOOSE i \in 1..Len(t) : t[i].name = name].handler

\* tools.setdefault(name, handler): the first handler of a name stays.
SetToolKeepFirst(t, name, handler) ==
  IF name \in ToolNames(t) THEN t
  ELSE Append(t, [name |-> name, handler |-> handler])

\* self.tools[name] = handler.
SetTool(t, name, handler) ==
  IF name \in ToolNames(t)
  THEN [i \in 1..Len(t) |->
          IF t[i].name = name THEN [name |-> name, handler |-> handler] ELSE t[i]]
  ELSE Append(t, [name |-> name, handler |-> handler])

\* The names that occur, in the order Python's sorted() puts them.
NameOrder ==
  << <<"batch">>, <<"custom">>, <<"echo">>, <<"file">>, <<"file", "_ops">>,
     <<"image">>, <<"image", "_processor">>, <<"nonexistent">>, <<"stub">> >>
Rank(name) == CHOOSE i \in 1..Len(NameOrder) : NameOrder[i] = name

\* sorted(names).
RECURSIVE SortedNames(_)
SortedNames(S) ==
  IF S = {} THEN <<>>
  ELSE LET first == CHOOSE n \in S : \A q \in S : Rank(n) <= Rank(q)
       IN <<first>> \o SortedNames(S \ {first})

\* ", ".join(names).
RECURSIVE JoinNames(_)
JoinNames(l) ==
  IF l = <<>> THEN <<>>
  ELSE IF Len(l) = 1 THEN l[1]
  ELSE l[1] \o <<", ">> \o JoinNames(Tail(l))

UnknownToolMsg(tool, available) ==
  <<"Unknown tool: ">> \o tool \o <<". Available: ">> \o JoinNames(available)

\* module_name.replace("_tool", "").
DefaultToolName(stem) == SelectSeq(stem, LAMBDA c : c # "_tool")

\* The *_tool.py files: the module's stem, the TOOL_NAME it declares (<<>>:
\* none) and its handle function ("": none).
ModuleFiles ==
  << [stem |-> <<"batch", "_tool">>, TOOL_NAME |-> <<"batch">>,
      handle |-> "batch_tool.handle"],
     [stem |-> <<"file", "_tool">>, TOOL_NAME |-> <<"file", "_ops">>,
      handle |-> "file_tool.handle"],
     [stem |-> <<"image", "_tool">>, TOOL_NAME |-> <<"image", "_processor">>,
      handle |-> "image_tool.handle"],
     [stem |-> <<"echo", "_tool">>, TOOL_NAME |-> <<>>,
      handle |-> "echo_tool.handle"],
     [stem |-> <<"stub", "_tool">>, TOOL_NAME |-> <<"stub">>, handle |-> ""] >>

\* The tools package with any subset of its modules failing to import.
ModuleDirs ==
  { [i \in 1..Len(ModuleFiles) |->
       [stem |-> ModuleFiles[i].stem, TOOL_NAME |-> ModuleFiles[i].TOOL_NAME,
        handle |-> ModuleFiles[i].handle, fails |-> f[i]]] :
    f \in [1..Len(ModuleFiles) -> BOOLEAN] }

\* getattr(module, "TOOL_NAME", module_name.replace("_tool", "")).
DeclaredName(m) ==
  IF m.TOOL_NAME # <<>> THEN m.TOOL_NAME ELSE DefaultToolName(m.stem)

ImportError(m) == <<"No module named ">> \o m.stem

\* Arguments of register and execute.
RegisterNames == { <<"custom">>, <<"batch">> }
RegisterHandlers == { "h1", "h2" }
ExecuteNames == { <<"batch">>, <<"custom">>, <<"image", "_processor">>, <<"nonexistent">> }
HandlerOutcomes ==
  { [raised |-> FALSE, err |-> <<>>, out |-> VDict([val |-> VInt(7)])],
    [raised |-> TRUE, err |-> <<"E1">>, out |-> VNone] }

Constructing == midx >= 1 /\ midx <= Len(modules)
Constructed == midx > Len(modules)

\* One turn of _discover_tools' loop.
discover_tools ==
  /\ Constructing
  /\ LET m == modules[midx]
     IN IF m.fails
        THEN /\ load_errors' =
                  [k \in DOMAIN load_errors \cup {DefaultToolName(m.stem)} |->
                     IF k = DefaultToolName(m.stem) THEN ImportError(m)
                     ELSE load_errors[k]]
             /\ UNCHANGED << tools, registered >>
        ELSE /\ load_errors' = load_errors
             /\ IF m.handle # ""
                THEN /\ tools' = SetTool(tools, DeclaredName(m), m.handle)
                     /\ registered' =
                          [k \in DOMAIN registered \cup {DeclaredName(m)} |->
                             IF k = DeclaredName(m) THEN m.handle ELSE registered[k]]
                ELSE UNCHANGED << tools, registered >>
  /\ midx' = midx + 1
  /\ regRet' = [op |-> "discover"]
  /\ UNCHANGED << runnerVars, workflow_runs, stepTables, storeRet, modules, lit >>

register ==
  /\ Constructed
  /\ \E name \in RegisterNames, handler \in RegisterHandlers :
       /\ tools' = SetTool(tools, name, handler)
       /\ registered' = [k \in DOMAIN registered \cup {name} |->
                           IF k = name THEN handler ELSE registered[k]]
       /\ regRet' = [op |-> "register", args |-> [name |-> name, handler |-> handler]]
  /\ UNCHANGED << runnerVars, workflow_runs, stepTables, storeRet, load_errors,
                  modules, midx, lit >>

execute ==
  /\ Constructed
  /\ \E tool \in ExecuteNames, o \in HandlerOutcomes :
       LET args == [tool |-> tool, action |-> "run",
                    inputs |-> VDict([who |-> VStr(<<"world">>)]), ctx |-> "ctx"]
       IN IF tool \notin ToolNames(tools)
          THEN regRet' =
                 [op |-> "execute", args |-> args, raised |-> TRUE,
                  available |-> SortedNames(ToolNames(tools)),
                  error |-> UnknownToolMsg(tool, SortedNames(ToolNames(tools))),
                  ret |-> VNone, invoked |-> <<>>, outcome |-> o]
          ELSE regRet' =
                 [op |-> "execute", args |-> args, raised |-> o.raised,
                  available |-> <<>>, error |-> o.err, ret |-> o.out,
                  invoked |-> << [handler |-> HandlerOf(tools, tool),
                                  action |-> args.action, inputs |-> args.inputs,
                                  ctx |-> args.ctx] >>,
                  outcome |-> o]
  /\ UNCHANGED << runnerVars, workflow_runs, stepTables, storeRet, tools,
                  load_errors, modules, midx, registered, lit >>

InitRegistry ==
  /\ RunnerIdle
  /\ workflow_runs = {}
  /\ step_executions = {}
  /\ rowid = 0
  /\ storeRet = NoRet
  /\ tools = <<>>
  /\ load_errors = EmptyMap
  /\ regRet = NoRet
  /\ modules \in ModuleDirs
  /\ midx = 1
  /\ registered = EmptyMap
  /\ lit = NoRet
NextRegistry ==
  \/ discover_tools
  \/ register
  \/ execute
SpecRegistry == InitRegistry /\ [][NextRegistry]_vars

\* ------------------------------------------------------------ resolver alone
\* WorkflowContext.resolve applied to values of every shape.

\* The longest text given to resolve.
MaxLitLen == 5
LitAlphabet == { "{", "}", " ", "temp_dir" }
LitTexts == UNION { [1..n -> LitAlphabet] : n \in 0..MaxLitLen }

Scalars == { VNone, VBool(TRUE), VInt(7) }
Leaves ==
  Scalars \cup { VStr(<<"plain">>), VStr(<<"{", "{", "}", "}">>),
                 VStr(Placeholder(<<"temp_dir">>)) }
Containers ==
  { VList(<<a, b>>) : a \in Leaves, b \in Scalars }
  \cup { VDict([k \in {"{{temp_dir}}"} |-> a]) : a \in Leaves }
  \cup { VDict([items |-> VList(<<a>>), n |-> VList(<<>>)]) : a \in Leaves }
  \cup { VList(<<VDict([k \in {"a"} |-> VList(<<a, VDict(EmptyMap)>>)])>>) :
           a \in Leaves }
ResolveValues == { VStr(t) : t \in LitTexts } \cup Leaves \cup Containers

\* ctx.steps_output at the time of the call.
ResolveOutputs ==
  { EmptyMap, [s1 |-> VDict([outputs |-> VDict([val |-> VInt(7)])])] }

\* Expressions written between {{ and }}.
Exprs ==
  { <<"inputs", ".", "who">>, <<"temp_dir">>, <<"workflow", ".", "run_dir">>,
    <<"steps", ".", "s1", ".", "outputs", ".", "val">>,
    <<"steps", ".", "s9", ".", "outputs", ".", "val">>,
    <<"bogus">>, <<"workflow", ".", "bogus">>,
    <<"inputs", ".", "who", ".", "x">>,
    <<"steps", ".", "s1", ".", "outputs", ".", "val", ".", "x">> }

\* Texts with one placeholder, written with or without blanks inside the
\* braces, and texts with two.
OnePlaceholderCalls ==
  { [op |-> "call", so |-> so, kind |-> "one", pre |-> pre, e1 |-> e, post |-> post,
     value |-> VStr(pre \o <<"{", "{">> \o pad \o e \o pad \o <<"}", "}">> \o post)] :
    so \in ResolveOutputs, e \in Exprs, pad \in { <<>>, <<" ">> },
    pre \in { <<>>, <<"see", " ">> }, post \in { <<>>, <<" ", "}">> } }
TwoPlaceholderCalls ==
  { [op |-> "call", so |-> so, kind |-> "two", pre |-> <<"a", " ">>, e1 |-> e1,
     mid |-> mid, e2 |-> e2, post |-> <<"!">>,
     value |-> VStr(<<"a", " ">> \o Placeholder(e1) \o mid \o Placeholder(e2) \o <<"!">>)] :
    so \in ResolveOutputs, e1 \in Exprs, e2 \in Exprs, mid \in { <<>>, <<" ", "x">> } }
ResolveCalls ==
  { [op |-> "call", so |-> so, kind |-> "value", value |-> v] :
      v \in ResolveValues, so \in ResolveOutputs }
  \cup OnePlaceholderCalls \cup TwoPlaceholderCalls

\* resolve(value) is called and returns.
resolve ==
  /\ lit.op = "call"
  /\ lit' = [call |-> lit, op |-> "resolve", value |-> lit.value, so |-> lit.so,
             ret |-> Resolve(lit.value, CtxOf(lit.so))]
  /\ UNCHANGED << runnerVars, workflow_runs, stepTables, storeRet, registryVars >>

InitResolve ==
  /\ RunnerIdle
  /\ workflow_runs = {}
  /\ step_executions = {}
  /\ rowid = 0
  /\ storeRet = NoRet
  /\ tools = <<>>
  /\ load_errors = EmptyMap
  /\ regRet = NoRet
  /\ modules = <<>>
  /\ midx = 0
  /\ registered = EmptyMap
  /\ lit \in ResolveCalls
NextResolve == resolve
SpecResolve == InitResolve /\ [][NextResolve]_vars

\* ------------------------------------------------------------ claims
Steps == recipe.steps
StepIds == { Steps[i].id : i \in 1..Len(Steps) }
Failing == pc \in {"failed", "cleanup", "done"} /\ mode # "success"
Returned == pc = "done"

\* C1: the steps are dispatched one at a time in recipe order: a step's tool
\* has been dispatched only if the loop has reached it and every earlier step
\* has finished, the activation at the bottom of the stack is the loop's
\* current step, and once an error has escalated to the run no later step is
\* dispatched or begun.
C1_RecipeOrder ==
  /\ \A j \in 1..Len(Steps) :
       Steps[j].id \in dispatched =>
         /\ j <= stepIdx
         /\ \A i \in 1..(j - 1) : i \in finished
  /\ stack # <<>> => /\ stepIdx <= Len(Steps)
                     /\ stack[1].fn = "step"
                     /\ stack[1].step = Steps[stepIdx]
  /\ Failing => /\ stack = <<>>
                /\ stepIdx \notin finished
                /\ \A j \in (stepIdx + 1)..Len(Steps) :
                     Steps[j].id \notin dispatched /\ j \notin finished

\* C1 witness: the second step's tool has been dispatched after the first
\* step finished.
C1_Witness == "s2" \in dispatched /\ 1 \in finished /\ "s1" \in dispatched

\* The text of every entry of a failures list occurs in the error text.
NamesFailures(text, out) ==
  LET fl == DictGet(out, "failures", VList(<<>>))
  IN \A i \in 1..Len(fl.v) : Contains(text, Str(fl.v[i]))

\* C2: once a step's tool has returned outputs O, {{steps.S.outputs.k}}
\* resolves to str(O[k]) for every key k of O, and a later step that reads
\* the output is dispatched with that text in its resolved inputs.
C2_OutputVisible ==
  /\ \A id \in DOMAIN returned : \A k \in DOMAIN returned[id] :
       ResolveString(Placeholder(<<"steps", ".", id, ".", "outputs", ".", k>>),
                     CtxOf(steps_output))
         = Str(returned[id][k])
  /\ \A j \in 2..Len(Steps) :
       (/\ stack # <<>>
        /\ stepIdx = j
        /\ Steps[j].inputs = InS1Val
        /\ "s1" \in DOMAIN returned)
       => stack[1].resolved = VDict([src |-> VStr(Str(returned["s1"]["val"]))])

\* C2 witness: the second step is being dispatched with the first step's
\* output in its inputs.
C2_Witness ==
  /\ stack # <<>>
  /\ stepIdx = 2
  /\ "s1" \in DOMAIN returned
  /\ stack[1].resolved = VDict([src |-> VStr(<<"7">>)])

\* The first dispatch of recipe step i returned outputs that fail its gate.
GateFailed(i) ==
  /\ Steps[i].type = "tool"
  /\ Steps[i].id \in DOMAIN returned
  /\ GateFails(Steps[i], returned[Steps[i].id])

\* C3: a step with gate true and on_failure abort whose tool returns outputs
\* with a falsy passed fails the run: the error text holds the failures
\* entries, the result has success false and no later step is executed.
C3_GateAbort ==
  \A i \in 1..Len(Steps) :
    (Steps[i].on_failure = "abort" /\ GateFailed(i)) =>
      /\ Failing
      /\ stepIdx = i
      /\ NamesFailures(runError, returned[Steps[i].id])
      /\ \A j \in (i + 1)..Len(Steps) :
           /\ Steps[j].id \notin dispatched
           /\ Steps[j].id \notin DOMAIN stepRecords
           /\ Steps[j].id \notin DOMAIN steps_output
      /\ Returned =>
           /\ result.success = VBool(FALSE)
           /\ NamesFailures(result.error.v, returned[Steps[i].id])

\* C3 witness: a run has returned after the gate of an abort step failed
\* with a failures entry.
C3_Witness ==
  /\ Returned
  /\ Steps # <<>>
  /\ Steps[1].on_failure = "abort"
  /\ GateFailed(1)
  /\ DictGet(returned["s1"], "failures", VList(<<>>)) = VList(<<VStr(<<"too small">>)>>)
\* The error of the latest dispatch of recipe step i: what the tool raised,
\* or the gate's error for the outputs it returned.
LastAttemptError(i) ==
  IF lastCall.err # NoErr THEN lastCall.err
  ELSE GateMsg(DictGet(returned[Steps[i].id], "failures", VList(<<>>)))

\* The latest dispatch of recipe step i failed: the tool raised, or it
\* returned outputs that fail the step's gate.
LastAttemptFailed(i) ==
  /\ lastCall.id = Steps[i].id
  /\ lastCall.err # NoErr \/ GateFailed(i)

\* C4: a retry step is dispatched at most 1 + retry_count times, every time
\* with the resolved inputs of the first attempt; when the step finishes its
\* last attempt was a successful one and its outputs are committed; when it
\* fails the run, the run's error is the error of the last attempt.
C4_Retry ==
  /\ \A n \in 1..Len(stack) :
       (stack[n].fn = "step" /\ stack[n].step.on_failure = "retry") =>
         /\ stack[n].attempts <= 1 + RetryCount(stack[n].step)
         /\ (lastCall.id = stack[n].step.id /\ stack[n].attempts >= 1) =>
              lastCall.inputs = stack[n].first
  /\ \A i \in 1..Len(Steps) :
       (Steps[i].type = "tool" /\ Steps[i].hasTool /\ Steps[i].on_failure = "retry") =>
         /\ i \in finished =>
              /\ Steps[i].id \in DOMAIN returned
              /\ ~GateFailed(i)
              /\ steps_output[Steps[i].id]
                   = VDict([outputs |-> VDict(returned[Steps[i].id])])
         /\ (Failing /\ stepIdx = i) =>
              /\ LastAttemptFailed(i)
              /\ runError = LastAttemptError(i)

\* C4 for steps without a gate, where an attempt fails only by raising.
C4_RetryNoGate ==
  /\ \A n \in 1..Len(stack) :
       (stack[n].fn = "step" /\ stack[n].step.on_failure = "retry") =>
         /\ stack[n].attempts <= 1 + RetryCount(stack[n].step)
         /\ (lastCall.id = stack[n].step.id /\ stack[n].attempts >= 1) =>
              lastCall.inputs = stack[n].first
  /\ \A i \in 1..Len(Steps) :
       (/\ Steps[i].type = "tool" /\ Steps[i].hasTool
        /\ Steps[i].on_failure = "retry" /\ ~Steps[i].gate) =>
         /\ i \in finished =>
              /\ Steps[i].id \in DOMAIN returned
              /\ lastCall.id = Steps[i].id => lastCall.err = NoErr
              /\ steps_output[Steps[i].id]
                   = VDict([outputs |-> VDict(returned[Steps[i].id])])
         /\ (Failing /\ stepIdx = i) =>
              /\ lastCall.id = Steps[i].id
              /\ lastCall.attempt = 1 + RetryCount(Steps[i])
              /\ runError = lastCall.err

\* C5: a skip step that failed (its tool raised, or its gate failed) is
\* passed over: the loop goes on and steps_output has no entry for it.
C5_SkipDiscards ==
  \A i \in 1..Len(Steps) :
    (/\ Steps[i].type = "tool" /\ Steps[i].hasTool
     /\ Steps[i].on_failure = "skip"
     /\ i \in finished
     /\ Steps[i].id \notin DOMAIN returned \/ GateFailed(i)) =>
      /\ stepIdx > i
      /\ Steps[i].id \notin DOMAIN steps_output

\* C5 where the tool raised: nothing is stored for the skipped step.
C5_SkipAfterRaise ==
  \A i \in 1..Len(Steps) :
    (/\ Steps[i].type = "tool" /\ Steps[i].hasTool
     /\ Steps[i].on_failure = "skip"
     /\ i \in finished
     /\ Steps[i].id \notin DOMAIN returned) =>
      /\ stepIdx > i
      /\ Steps[i].id \notin DOMAIN steps_output
\* The refinement loops that are running, as stack positions.
Loops == { n \in 1..Len(stack) : stack[n].fn = "refine" }

\* C6: a refinement loop never goes past iteration N = max_iterations, and
\* iteration_count of its failing step stays within 0..N and equals the
\* number of the iteration the loop is in.
C6_RefinementBound ==
  /\ \A n \in Loops :
       /\ stack[n].N = MaxIterations
       /\ stack[n].iter \in 1..MaxIterations
       /\ iteration_count[stack[n].step.id] = stack[n].iter
  /\ \A id \in DOMAIN iteration_count :
       iteration_count[id] \in 0..MaxIterations

\* C6 for the loop of a step of the recipe's step list (the outermost loop).
C6_OuterBound ==
  /\ \A n \in Loops :
       /\ stack[n].N = MaxIterations
       /\ stack[n].iter \in 1..MaxIterations
       /\ n = 2 => iteration_count[stack[n].step.id] = stack[n].iter
  /\ \A id \in DOMAIN iteration_count :
       iteration_count[id] \in 0..MaxIterations

\* The loop on top of the stack is about to dispatch its failing step again.
AtRedispatch ==
  /\ pc = "exec"
  /\ Top(stack).fn = "refine"
  /\ Top(stack).sub > Len(Top(stack).rsteps)

\* The step now taken is a re-dispatch whose outputs have a truthy passed.
RedispatchPasses ==
  /\ AtRedispatch
  /\ lastCall'.err = NoErr
  /\ RefinePasses(returned'[Top(stack).step.id])

\* The step now taken is a re-dispatch that does not pass.
RedispatchFails ==
  /\ AtRedispatch
  /\ lastCall'.err # NoErr \/ ~RefinePasses(returned'[Top(stack).step.id])

\* After the loop on top of the stack and the step activation under it have
\* ended, control is with their caller: run()'s loop takes the next step,
\* an enclosing refinement loop its next substep.
CallerGoesOn ==
  IF Len(stack) = 2
  THEN stack' = <<>> /\ pc' = "loop" /\ stepIdx' = stepIdx + 1
       /\ stepIdx \in finished'
  ELSE /\ Len(stack') = Len(stack) - 2
       /\ Top(stack') = [stack[Len(stack) - 2] EXCEPT !.sub = @ + 1]

\* C7: the first re-dispatch that returns a truthy passed ends the loop:
\* its outputs are committed for the failing step, refinement_active is
\* cleared, no further iteration runs, the loop and the step end and the
\* caller goes on (run()'s loop with the step after V); when this happens in
\* the first iteration of a recipe step's loop, iteration_count of the step
\* is 1.
C7_RefinementConverges ==
  [][RedispatchPasses =>
       LET f == Top(stack)
       IN /\ steps_output'[f.step.id] = VDict([outputs |-> VDict(returned'[f.step.id])])
          /\ refinement_active' = FALSE
          /\ CallerGoesOn
          /\ (f.iter = 1 /\ Len(stack) = 2) => iteration_count'[f.step.id] = 1]_vars

\* C7 witness: the run returned success after step s1 passed in the first
\* iteration of its refinement loop.
C7_Witness ==
  /\ Returned
  /\ result.success = VBool(TRUE)
  /\ "s1" \in DOMAIN iteration_count
  /\ iteration_count["s1"] = 1
  /\ ~refinement_active

\* A run has failed by exhausting the refinement loop of recipe step i.
Exhausted(i) ==
  /\ Failing
  /\ i \in 1..Len(Steps)
  /\ stepIdx = i
  /\ Steps[i].on_failure = "refine"
  /\ lastCall.id = Steps[i].id
  /\ lastCall.attempt = 0

\* C8: when the last iteration's re-dispatch does not pass, the loop clears
\* refinement_active and raises the refinement-exhausted error.  Raised by
\* the loop of a recipe step it fails the run: iteration_count of the step
\* is max_iterations and no later step is executed.  Raised by the loop of
\* a refinement substep it is that substep's error, which the enclosing
\* loop logs before it goes on.
C8_RefinementExhausts ==
  [][(RedispatchFails /\ Top(stack).iter >= Top(stack).N) =>
       /\ refinement_active' = FALSE
       /\ IF Len(stack) = 2
          THEN /\ pc' = "failed"
               /\ stack' = <<>>
               /\ runError' = ExhaustedMsg(MaxIterations)
               /\ iteration_count'[Top(stack).step.id] = MaxIterations
               /\ stepIdx' = stepIdx
               /\ finished' = finished
          ELSE /\ pc' = "exec"
               /\ runError' = runError
               /\ Len(stack') = Len(stack) - 2
               /\ Top(stack') = [stack[Len(stack) - 2] EXCEPT !.sub = @ + 1]
     /\ \A i \in 1..Len(Steps) :
          Exhausted(i)' =>
            /\ \A j \in (i + 1)..Len(Steps) :
                 /\ Steps[j].id \notin dispatched'
                 /\ Steps[j].id \notin DOMAIN stepRecords'
            /\ Returned' =>
                 /\ result'.success = VBool(FALSE)
                 /\ result'.error = VStr(ExhaustedMsg(MaxIterations))]_vars

\* C8 witness: a run returned after the loop of step s1 was exhausted.
C8_Witness ==
  /\ Returned
  /\ Exhausted(1)
  /\ result.success = VBool(FALSE)
  /\ iteration_count["s1"] = MaxIterations
  /\ "s2" \notin dispatched

\* C9: the error of a run that failed by exhausting a refinement loop names
\* the failing step and the iteration cap.
C9_ExhaustedNamesStep ==
  \A i \in 1..Len(Steps) :
    Exhausted(i) =>
      /\ Contains(runError, <<Steps[i].id>>)
      /\ Contains(runError, <<ToString(MaxIterations)>>)

\* C9 without the step: the error names the iteration cap.
C9_ExhaustedNamesCap ==
  \A i \in 1..Len(Steps) :
    Exhausted(i) => Contains(runError, <<ToString(MaxIterations)>>)

\* C10: on a tracked run's failure fail_run comes first, then the
\* on_failure list is processed action by action, then the result is
\* returned; while and after the list is processed the run record is not
\* written.
C10_FailureOrder ==
  [][/\ (pc' = "cleanup" /\ mode' = "failure" /\ tracked') =>
          /\ runRecord'.status = "failed"
          /\ runRecord'.error = runError'
     /\ (pc = "cleanup" /\ mode = "failure") =>
          /\ runRecord' = runRecord
          /\ \/ cidx' = cidx + 1 /\ cidx <= Len(recipe.cleanup.on_failure)
                /\ result' = result
             \/ cidx' = cidx /\ cidx > Len(recipe.cleanup.on_failure)
                /\ pc' = "done" /\ result'.success = VBool(FALSE)
     /\ pc = "failed" => (pc' = "cleanup" /\ cidx' = 1 /\ result' = result)
     /\ result' # result => pc = "cleanup"]_vars

\* C10 witness: a tracked run that failed has processed a cleanup list of
\* two actions and returned.
C10_Witness ==
  /\ Returned
  /\ tracked
  /\ mode = "failure"
  /\ Len(recipe.cleanup.on_failure) = 2
  /\ cidx = 3
  /\ runRecord.status = "failed"
  /\ result.success = VBool(FALSE)

\* C11: cleanup never changes the run outcome.  Processing a cleanup action,
\* whether it fails or not, moves _cleanup to the next action and changes
\* neither the list being processed nor the caught error, the error log or
\* the run record; when run() returns, every action of the list has been
\* processed in order, and the success flag is true exactly when every
\* recipe step finished without an escaping error.
C11_CleanupNeutral ==
  [][ /\ (pc = "cleanup" /\ cidx <= Len(CleanupList)) =>
           /\ pc' = "cleanup"
           /\ cidx' = cidx + 1
           /\ mode' = mode
           /\ runError' = runError
           /\ errors' = errors
           /\ runRecord' = runRecord
      /\ Returned' =>
           LET done == SelectSeq(cleaned', LAMBDA e : e.list = mode')
           IN /\ Len(done) = Len(CleanupList')
              /\ \A i \in 1..Len(done) : done[i].idx = i
           /\ result'.success =
                VBool(runError' = NoErr /\ \A i \in 1..Len(Steps) : i \in finished')
    ]_vars

\* A run that returned success although a cleanup action before the last one
\* of its list failed.
C11_Witness ==
  /\ Returned
  /\ result.success = VBool(TRUE)
  /\ \E i \in 1..(Len(cleaned) - 1) : cleaned[i].failed

\* C12: a run that got past recipe loading (pc is not "raised") never stops
\* short of returning (until it has returned, run() is at a point where one
\* of its steps can be taken: HasNextStep lists the guards of the actions),
\* and what it returns
\* is a result record with success, run_id and run_dir; with success true it
\* carries outputs, the final steps_output, and no error; with success false
\* it carries error and errors, and errors contains that error.
HasNextStep ==
  \/ pc \in {"start", "loop", "failed", "cleanup"}
  \/ /\ pc = "exec"
     /\ stack # <<>>
     /\ \/ Top(stack).fn = "step" /\ Top(stack).phase \in {"dispatch", "retry"}
        \/ Top(stack).fn = "refine"

C13_Terminal ==
  [][ \A r \in workflow_runs :
        r.status \in {"completed", "failed"} =>
          \E q \in workflow_runs' : q.id = r.id /\ q.status = r.status ]_vars

\* C13 (within one call of run()): the record of a tracked run is 'running'
\* from start_run until run() finalises it, and when run() has returned it is
\* 'completed' exactly if the result has success true and 'failed' exactly
\* if it has success false.
C13_RunStatus ==
  tracked =>
    /\ pc \in {"loop", "exec", "failed"} => runRecord.status = "running"
    /\ (pc = "cleanup" /\ mode = "success") => runRecord.status = "running"
    /\ Returned =>
         /\ runRecord.status = "completed" <=> result.success = VBool(TRUE)
         /\ runRecord.status = "failed" <=> result.success = VBool(FALSE)

\* The rows of step_executions that hold the pair (run, step).
RowsOf(rows, run, step) == { r \in rows : r.run_id = run /\ r.step_id = step }

\* C14: after any sequence of start_step, complete_step and fail_step calls
\* the store holds at most one row per (run_id, step_id); a start_step leaves
\* exactly one row for its pair, a new 'running' row with empty outputs and
\* no error whatever the row it replaced held, and leaves every other pair's
\* row as it was.
C14_StepUnique ==
  /\ [](\A r, q \in step_executions :
          (r.run_id = q.run_id /\ r.step_id = q.step_id) => r = q)
  /\ [][ storeRet'.op = "start_step" =>
           LET a == storeRet'.args
           IN /\ \E r \in step_executions' :
                   /\ RowsOf(step_executions', a.run_id, a.step_id) = {r}
                   /\ r \notin step_executions
                   /\ r.status = "running"
                   /\ r.outputs = VDict(EmptyMap)
                   /\ r.error_message = VNone
              /\ \A r \in step_executions :
                   (r.run_id # a.run_id \/ r.step_id # a.step_id) =>
                     r \in step_executions'
              /\ Cardinality(step_executions') =
                   Cardinality(step_executions
                               \ RowsOf(step_executions, a.run_id, a.step_id)) + 1
      ]_vars

\* A start_step has just replaced a completed row that carried outputs and,
\* from an earlier failure, an error.
C14_Witness ==
  /\ storeRet.op = "start_step"
  /\ \E r \in storeRet.replaced :
       /\ r.status = "completed"
       /\ r.outputs # VDict(EmptyMap)
       /\ r.error_message # VNone

\* What get_completed_steps is claimed to return, with Stored(o) the value
\* handed back for outputs o: a complete_step on an existing row makes the
\* step present with Stored(outputs); a start_step or a fail_step makes it
\* absent; no call changes what is returned for any other step or run; and
\* get_completed_steps returns what the rows say and changes nothing.
CompletedStepsFollow(Stored(_)) ==
  LET a == storeRet'.args
      before(run) == GetCompletedSteps(step_executions, run)
      after(run) == GetCompletedSteps(step_executions', run)
      others == \A run \in RunIds, k \in StepKeys :
                  (run # a.run_id \/ k # a.step_id) =>
                    /\ (k \in DOMAIN after(run)) = (k \in DOMAIN before(run))
                    /\ k \in DOMAIN after(run) => after(run)[k] = before(run)[k]
  IN /\ storeRet'.op = "complete_step" =>
          /\ others
          /\ RowsOf(step_executions, a.run_id, a.step_id) # {} =>
               /\ a.step_id \in DOMAIN after(a.run_id)
               /\ after(a.run_id)[a.step_id] = Stored(a.outputs)
          /\ RowsOf(step_executions, a.run_id, a.step_id) = {} =>
               a.step_id \notin DOMAIN after(a.run_id)
     /\ storeRet'.op \in {"start_step", "fail_step"} =>
          /\ others
          /\ a.step_id \notin DOMAIN after(a.run_id)
     /\ storeRet'.op = "get_completed_steps" =>
          /\ step_executions' = step_executions
          /\ storeRet'.ret = before(a.run_id)
          /\ DOMAIN storeRet'.ret =
               { r.step_id : r \in { q \in step_executions :
                                      q.run_id = a.run_id /\ q.status = "completed" } }

AsGiven(o) == o

\* C15 as stated: get_completed_steps(run_id) returns exactly the completed
\* steps of that run, each mapped to the outputs given to its most recent
\* complete_step.
C15_OutputsAsGiven == [][CompletedStepsFollow(AsGiven)]_vars

\* C15, amended: get_completed_steps(run_id) returns exactly the completed
\* steps of that run, each mapped to the outputs given to its most recent
\* complete_step as the store serialises them (json.dumps with default=str,
\* read back with json.loads: a value that is not a JSON value comes back as
\* its str()); running, failed and restarted steps and the steps of other
\* runs are absent.
C15_CompletedSteps == [][CompletedStepsFollow(Json)]_vars

\* get_completed_steps has just returned a step whose outputs held a path,
\* for a run that also has a step that is not completed, while another run
\* holds a completed row.
C15_Witness ==
  /\ storeRet.op = "get_completed_steps"
  /\ \E k \in DOMAIN storeRet.ret :
       storeRet.ret[k] = VDict([file |-> VStr(<<"out.png">>)])
  /\ \E r \in step_executions :
       r.run_id = storeRet.args.run_id /\ r.status # "completed"
  /\ \E r \in step_executions :
       r.run_id # storeRet.args.run_id /\ r.status = "completed"

\* C16: every start_run that returns creates exactly one new run record, with
\* status 'running' and the given inputs, under the id it returns, which no
\* other run record has; and no two run records ever share a run id.
C16_RunIdsUnique ==
  /\ [](\A r, q \in workflow_runs : r.id = q.id => r = q)
  /\ [][ (storeRet'.op = "start_run" /\ ~storeRet'.raised) =>
           /\ \A q \in workflow_runs : q.id # storeRet'.ret
           /\ \E r \in workflow_runs' :
                /\ r \notin workflow_runs
                /\ workflow_runs' = workflow_runs \cup {r}
                /\ r.id = storeRet'.ret
                /\ r.status = "running"
                /\ r.inputs = storeRet'.args.inputs
                /\ r.project_id = storeRet'.args.project_id
      ]_vars

\* A start_run has just returned the id of a second run record while the
\* first one is already finished.
C16_Witness ==
  /\ storeRet.op = "start_run"
  /\ ~storeRet.raised
  /\ \E r, q \in workflow_runs :
       /\ r.id = storeRet.ret
       /\ q.id # r.id
       /\ q.status \in {"completed", "failed"}

\* The run records get_stats(project_id) is about.
StatsRows(project_id) ==
  IF project_id = VNone THEN workflow_runs
  ELSE { r \in workflow_runs : r.project_id = project_id }

\* C17: get_stats(project_id?) returns total, completed and failed as the
\* numbers of run records (of that project when given), of those completed
\* and of those failed, 0 when there are none, so completed + failed <= total.
C17_StatsNumbers ==
  storeRet.op = "get_stats" =>
    LET sel == StatsRows(storeRet.args.project_id)
        got == storeRet.ret.runs
    IN /\ got.total = VInt(Cardinality(sel))
       /\ got.completed = VInt(Cardinality({ r \in sel : r.status = "completed" }))
       /\ got.failed = VInt(Cardinality({ r \in sel : r.status = "failed" }))
       /\ got.completed.v + got.failed.v <= got.total.v

\* C17 where it holds: total is always the number of selected records, and
\* when at least one record is selected completed and failed are the counts.
C17_StatsWhenRuns ==
  storeRet.op = "get_stats" =>
    LET sel == StatsRows(storeRet.args.project_id)
        got == storeRet.ret.runs
    IN /\ got.total = VInt(Cardinality(sel))
       /\ sel # {} =>
            /\ got.completed = VInt(Cardinality({ r \in sel : r.status = "completed" }))
            /\ got.failed = VInt(Cardinality({ r \in sel : r.status = "failed" }))
            /\ got.completed.v + got.failed.v <= got.total.v

\* C18: execute on a name that is not registered raises the unknown-tool
\* error, whose message lists the registered names in ascending order,
\* invokes no handler and leaves the registry as it was; on a registered name
\* it invokes the handler registered last under that name, once, with the
\* given action, inputs and context, and returns what the handler returns.
C18_Execute ==
  [][ regRet'.op = "execute" =>
        LET a == regRet'.args
            av == regRet'.available
        IN /\ tools' = tools
           /\ load_errors' = load_errors
           /\ IF a.tool \notin DOMAIN registered
              THEN /\ regRet'.raised
                   /\ regRet'.invoked = <<>>
                   /\ regRet'.error =
                        <<"Unknown tool: ">> \o a.tool \o <<". Available: ">>
                          \o JoinNames(av)
                   /\ { av[i] : i \in 1..Len(av) } = DOMAIN registered
                   /\ \A i, j \in 1..Len(av) : i < j => Rank(av[i]) < Rank(av[j])
              ELSE /\ regRet'.invoked =
                        << [handler |-> registered[a.tool], action |-> a.action,
                            inputs |-> a.inputs, ctx |-> a.ctx] >>
                   /\ regRet'.raised = regRet'.outcome.raised
                   /\ ~regRet'.raised => regRet'.ret = regRet'.outcome.out
    ]_vars

\* execute has just returned the result of a handler that register put in
\* the place of the discovered one.
C18_Witness ==
  /\ regRet.op = "execute"
  /\ ~regRet.raised
  /\ regRet.args.tool = <<"batch">>
  /\ regRet.invoked[1].handler = "h2"
  /\ Len(tools) >= 2

\* C19: when the registry has been constructed, every module that failed to
\* load is in load_errors under its tool name and is absent from
\* available_tools(), every module that loaded and declares a handler is in
\* available_tools(), and no name is in both.
C19_LoadErrorsByToolName ==
  (Constructed /\ regRet.op = "discover") =>
    /\ \A i \in 1..Len(modules) :
         modules[i].fails =>
           /\ DeclaredName(modules[i]) \in DOMAIN load_errors
           /\ DeclaredName(modules[i]) \notin ToolNames(tools)
    /\ \A i \in 1..Len(modules) :
         (~modules[i].fails /\ modules[i].handle # "") =>
           DeclaredName(modules[i]) \in ToolNames(tools)
    /\ ToolNames(tools) \cap DOMAIN load_errors = {}

\* C19 where it holds: a module
\* that failed is in load_errors under its file name without "_tool" and
\* its tool is absent from available_tools(); a module that loaded and
\* declares a handler is in available_tools(); for these modules no name is
\* in both.
C19_DiscoveryTotal ==
  /\ midx \in 1..(Len(modules) + 1)
  /\ (Constructed /\ regRet.op = "discover") =>
       /\ \A i \in 1..Len(modules) :
            modules[i].fails =>
              /\ DefaultToolName(modules[i].stem) \in DOMAIN load_errors
              /\ DeclaredName(modules[i]) \notin ToolNames(tools)
       /\ \A i \in 1..Len(modules) :
            (~modules[i].fails /\ modules[i].handle # "") =>
              DeclaredName(modules[i]) \in ToolNames(tools)
       /\ ToolNames(tools) \cap DOMAIN load_errors = {}

\* Text s contains a placeholder: "{{", one or more symbols other than "}",
\* then "}}".
HasPlaceholder(s) ==
  \E i \in 1..Len(s), n \in 1..Len(s) :
    /\ i + 3 + n <= Len(s)
    /\ s[i] = "{" /\ s[i + 1] = "{"
    /\ \A k \in (i + 2)..(i + 1 + n) : s[k] # "}"
    /\ s[i + 2 + n] = "}" /\ s[i + 3 + n] = "}"

\* A value in which no string contains a placeholder.
RECURSIVE Literal(_)
Literal(x) ==
  CASE x.t = "str" -> ~HasPlaceholder(x.v)
    [] x.t = "dict" -> \A k \in DOMAIN x.v : Literal(x.v[k])
    [] x.t = "list" -> \A i \in 1..Len(x.v) : Literal(x.v[i])
    [] OTHER -> TRUE

\* C20: resolve is the identity on literals: in any context a string without
\* a placeholder resolves to itself, and a value built from mappings,
\* sequences and scalars in which no string has a placeholder resolves to a
\* structurally equal value, mapping keys included.
C20_LiteralFixedPoint ==
  lit.op = "resolve" => (Literal(lit.value) => lit.ret = lit.value)

\* resolve has just returned a nested value unchanged although one of its
\* mapping keys reads like a placeholder and one of its strings is made of
\* braces.
C20_Witness ==
  /\ lit.op = "resolve"
  /\ lit.value = VDict([k \in {"{{temp_dir}}"} |-> VStr(<<"{", "{", "}", "}">>)])
  /\ lit.ret = lit.value

\* The call resolve has just answered, and whether it was made on a text
\* with one placeholder or with two.
Resolved(kind) == lit.op = "resolve" /\ lit.call.kind = kind

\* A lookup of keys in obj leaves the mappings: some key but the last names
\* a value that is no mapping.
RECURSIVE OffContainer(_, _)
OffContainer(obj, keys) ==
  /\ keys # <<>>
  /\ \/ obj.t # "dict"
     \/ /\ Len(keys[1]) = 1 /\ keys[1][1] \in DOMAIN obj.v
        /\ OffContainer(obj.v[keys[1][1]], Tail(keys))

Roots ==
  { <<"inputs">>, <<"config">>, <<"steps">>, <<"templates">>, <<"workflow">>,
    <<"temp_dir">>, <<"timestamp">> }
WorkflowFields == { <<"run_id">>, <<"run_dir">>, <<"name">> }

UnknownRoot(e) == SplitDots(e)[1] \notin Roots
UnknownWorkflowField(e) ==
  LET parts == SplitDots(e)
  IN parts[1] = <<"workflow">> /\ (Len(parts) = 1 \/ parts[2] \notin WorkflowFields)
PendingStep(e, so) ==
  LET parts == SplitDots(e)
  IN /\ parts[1] = <<"steps">> /\ Len(parts) >= 2
     /\ ~(Len(parts[2]) = 1 /\ parts[2][1] \in DOMAIN so)
LookupOffContainer(e, so) ==
  LET parts == SplitDots(e)
  IN \/ parts[1] = <<"inputs">> /\ OffContainer(VDict(RunInputs), Tail(parts))
     \/ /\ parts[1] = <<"steps">> /\ Len(parts) >= 2 /\ ~PendingStep(e, so)
        /\ OffContainer(so[parts[2][1]], Tail(Tail(parts)))

\* The expression is one of those that fail to evaluate.
FailsToEvaluate(e, so) ==
  UnknownRoot(e) \/ UnknownWorkflowField(e) \/ LookupOffContainer(e, so)

\* C21: a placeholder whose expression fails to evaluate (unknown root,
\* unknown workflow field, lookup off a non-container) is left intact by
\* resolve, and so is the text around it: the result is the input text.
C21_FailurePreserved ==
  (Resolved("one") /\ FailsToEvaluate(lit.call.e1, lit.so)) => lit.ret = lit.value

\* C21, the part that holds: an unknown root and an unknown workflow field
\* leave the input text as it is, and a lookup off a non-container puts the
\* text None in the placeholder's place, the text around it unchanged.
C21_RaisePreserved ==
  Resolved("one") =>
    /\ (UnknownRoot(lit.call.e1) \/ UnknownWorkflowField(lit.call.e1)) =>
         lit.ret = lit.value
    /\ LookupOffContainer(lit.call.e1, lit.so) =>
         lit.ret = VStr(lit.call.pre \o <<"None">> \o lit.call.post)

\* C22: a placeholder {{steps.<id>.<path>}} resolved while steps_output has
\* no entry for <id> comes back verbatim: the result is the input text.
C22_PendingVerbatim ==
  (Resolved("one") /\ PendingStep(lit.call.e1, lit.so)) => lit.ret = lit.value

\* ctx.steps_output after the step a pending expression names has committed
\* the outputs {"val": 7}.
Committed(e) ==
  [k \in {SplitDots(e)[2][1]} |-> VDict([outputs |-> VDict([val |-> VInt(7)])])]

\* C22, the part that holds: the placeholder of a pending step is replaced by
\* {{steps.<id>...}}, the path dropped; resolving the raw input again once
\* the step has committed yields the value at the path in the step's entry,
\* and resolving the result again yields None.
C22_PendingRewritten ==
  (Resolved("one") /\ PendingStep(lit.call.e1, lit.so)) =>
    LET id == SplitDots(lit.call.e1)[2]
        after == CtxOf(Committed(lit.call.e1))
    IN /\ lit.ret = VStr(lit.call.pre \o PendingStepText(id) \o lit.call.post)
       /\ Resolve(lit.value, after) =
            VStr(lit.call.pre
                 \o Str(GetNested(after.steps_output[id[1]],
                                  Tail(Tail(SplitDots(lit.call.e1)))))
                 \o lit.call.post)
       /\ Resolve(lit.ret, after) = VStr(lit.call.pre \o <<"None">> \o lit.call.post)

\* What a placeholder is to become: itself when its expression fails to
\* evaluate or names a pending step, the stringified value otherwise.
Replacement(e, so) ==
  IF FailsToEvaluate(e, so) \/ PendingStep(e, so) THEN Placeholder(e)
  ELSE Str(Evaluate(e, CtxOf(so)))

\* C23: in a text with two placeholders each is replaced by the stringified
\* value of its own expression, one that fails to evaluate is left intact
\* while the other is still replaced, and the text outside is unchanged.
C23_EachReplaced ==
  Resolved("two") =>
    lit.ret = VStr(lit.call.pre \o Replacement(lit.call.e1, lit.so) \o lit.call.mid
                   \o Replacement(lit.call.e2, lit.so) \o lit.call.post)

\* C23, the part that holds: each placeholder becomes what it becomes when
\* resolved alone, whatever the other one is, and the text outside is
\* unchanged.
C23_Independent ==
  Resolved("two") =>
    lit.ret = VStr(lit.call.pre
                   \o ResolveString(Placeholder(lit.call.e1), CtxOf(lit.so))
                   \o lit.call.mid
                   \o ResolveString(Placeholder(lit.call.e2), CtxOf(lit.so))
                   \o lit.call.post)

\* run()'s loop is about to execute an approval gate that has an option.
AtGate ==
  /\ pc = "loop" /\ stepIdx <= Len(Steps)
  /\ Steps[stepIdx].type = "approval_gate"
  /\ (Steps[stepIdx].options = <<>> \/ Steps[stepIdx].options[1] # <<>>)

\* default_action, or the first option when default_action is unset.
GateDefault(step) ==
  IF step.default_action # <<>> THEN step.default_action[1]
  ELSE IF step.options # <<>> THEN step.options[1][1]
  ELSE "approve"

\* The entry of steps_output for a step whose outputs are out.
Entry(out) == VDict([outputs |-> VDict(out)])

C25_FailsFast ==
  (~recipe.yaml_ok \/ ~recipe.has_steps) =>
    /\ runRecord.status = "none"
    /\ begun = {} /\ cleaned = <<>>
    /\ result = EmptyMap

\* C25, the part that holds: for a malformed file run() raises at load, with
\* no context, no directories and no run record.
C25_MalformedFailsFast ==
  ~recipe.yaml_ok =>
    /\ pc \in {"start", "raised"}
    /\ runRecord.status = "none" /\ fs = {} /\ result = EmptyMap

\* What run() does with a recipe without steps: once it has returned, the
\* result reports success, and a tracked run is recorded as completed.
C25_NoStepsSucceeds ==
  (recipe.yaml_ok /\ ~recipe.has_steps /\ pc = "done") =>
    /\ result.success = VBool(TRUE)
    /\ tracked => runRecord.status = "completed"

\* C26: in a tracked run a step record exists for a step id if and only if
\* _execute_step has begun that step, refinement substeps included.
C26_RecordIffBegun == tracked => DOMAIN stepRecords = begun

\* C26, the part that holds: the records of a tracked run are those of the
\* recipe's steps run()'s loop has begun, which are the steps up to the
\* loop's position; no step after the one that failed the run has a record,
\* and no refinement substep has one.
C26_RecordIffLoopBegan ==
  tracked =>
    /\ DOMAIN stepRecords = begun \cap StepIds
    /\ DOMAIN stepRecords =
         { Steps[i].id : i \in { j \in 1..Len(Steps) :
                                   j < stepIdx \/ (j = stepIdx /\ pc # "loop") } }

\* The step records of a tracked run that have status completed.
Completed ==
  { id \in DOMAIN stepRecords : tracked /\ stepRecords[id].status = "completed" }

\* C27: whenever a step record of a tracked run is completed, steps_output
\* has an entry for the step, the entry holds what the step's tool returned,
\* and the record stores that entry; so a skipped step is not recorded as
\* completed.
C27_CommitPoint ==
  \A id \in Completed :
    /\ id \in DOMAIN steps_output
    /\ id \in DOMAIN returned => steps_output[id] = Entry(returned[id])
    /\ stepRecords[id].outputs = Json(steps_output[id])

\* C27, the part that holds: a completed record stores the step's entry of
\* steps_output as it is when the step returns, and the empty mapping when
\* there is none.
C27_CompletedStoresEntry ==
  \A id \in Completed :
    stepRecords[id].outputs =
      Json(IF id \in DOMAIN steps_output THEN steps_output[id] ELSE VDict(EmptyMap))

Removes(action) ==
  CASE action.action = "delete" -> Resolve(action.path, CtxOf(steps_output)).v
    [] action.action = "move" -> Resolve(action.source, CtxOf(steps_output)).v
    [] OTHER -> <<>>

C29_RecipeAndInputsKept ==
  [][ /\ recipe' = recipe
      /\ ctx_inputs' = ctx_inputs
      /\ (pc = "loop" /\ pc' = "exec") =>
           /\ steps_output' = steps_output
           /\ iteration_count' = iteration_count
           /\ Top(stack').resolved = Resolve(Steps[stepIdx].inputs, CtxOf(steps_output))
    ]_vars

\* A run has returned success after a refinement loop on s1; the tool of s2
\* was given inputs that differ from the raw inputs of s2, which still hold
\* their placeholder.
C29_Witness ==
  /\ Returned
  /\ result.success = VBool(TRUE)
  /\ Len(Steps) = 2
  /\ Steps[1].on_failure = "refine" /\ "s1" \in DOMAIN iteration_count
  /\ lastCall.id = "s2"
  /\ lastCall.inputs # Steps[2].inputs
  /\ Steps[2].inputs = InS1Val
  /\ HasPlaceholder(Steps[2].inputs.v.src.v)
  /\ ctx_inputs = RunInputs

\* The ids whose entry of steps_output a step of the run writes.
Written ==
  { id \in DOMAIN steps_output' :
      id \notin DOMAIN steps_output \/ steps_output'[id] # steps_output[id] }

\* C30: steps_output is written only when a step commits: the result of a
\* first dispatch that fails the step's gate is not written, and in a
\* refinement loop the result of a re-dispatch that does not pass is not
\* written.
C30_WrittenOnCommit ==
  [][ pc = "exec" =>
        \A id \in Written :
          LET out == steps_output'[id].v.outputs.v
              f == Top(stack)
          IN /\ (f.fn = "step" /\ f.phase = "dispatch") => ~GateFails(f.step, out)
             /\ f.fn = "refine" => RefinePasses(out)
    ]_vars

\* C30, the part that holds: steps_output is written only for the step whose
\* tool has just returned without raising, and what is written is what the
\* tool returned, whether it passes or not; a dispatch that raises writes
\* nothing.
C30_WrittenOnReturn ==
  [][ pc = "exec" =>
        /\ \A id \in Written :
             /\ lastCall'.id = id
             /\ lastCall'.err = NoErr
             /\ steps_output'[id] = Entry(returned'[id])
        /\ (lastCall' # lastCall /\ lastCall'.err # NoErr) => Written = {}
    ]_vars

\* The recipe steps of type refinement whose trigger names step id.
Triggered(id) ==
  { i \in 1..Len(Steps) :
      /\ Steps[i].type = "refinement"
      /\ Steps[i].trigger \in { <<id, ".", "failed">>, <<id>> } }

\* The substeps of the block to be used for a failing step, by priority;
\* "none" when there is no block.
ChosenSteps(step) ==
  IF step.refinement.nonempty THEN step.refinement.steps
  ELSE IF Triggered(step.id) # {}
       THEN Steps[CHOOSE i \in Triggered(step.id) :
                    \A j \in Triggered(step.id) : i <= j].steps
  ELSE IF recipe.refinement.nonempty THEN recipe.refinement.steps
  ELSE "none"

\* The step now taken is the first dispatch of a step with on_failure refine,
\* and it fails: the tool raises or the gate fails.
RefineEntered ==
  /\ pc = "exec"
  /\ Top(stack).fn = "step" /\ Top(stack).phase = "dispatch"
  /\ Top(stack).step.on_failure = "refine"
  /\ Depth(stack) < MaxDepth
  /\ \/ lastCall'.err # NoErr
     \/ GateFails(Top(stack).step, returned'[Top(stack).step.id])

\* The activation on top of the stack ends with error e: run()'s loop fails
\* the run with it, an enclosing refinement loop goes to its next substep.
StepFailsWith(e) ==
  IF Len(stack) = 1
  THEN stack' = <<>> /\ pc' = "failed" /\ runError' = e
  ELSE /\ Len(stack') = Len(stack) - 1
       /\ Top(stack') = [stack[Len(stack) - 1] EXCEPT !.sub = @ + 1]

\* C31: the block for a failing step is the step's inline block, else that
\* of the first refinement-typed step whose trigger is '<id>.failed' or
\* '<id>', else the recipe's; without a block, or with a block that has no
\* substeps, the step fails with a hard error, nothing more is begun or
\* dispatched, and refinement_active is cleared.
C31_RefinementPriority ==
  [][ RefineEntered =>
        LET step == Top(stack).step
            ss == ChosenSteps(step)
        IN IF ss = "none" \/ ss = <<>>
           THEN /\ StepFailsWith(IF ss = "none" THEN NoRefinementMsg(step.id)
                                 ELSE NoStepsMsg(step.id))
                /\ refinement_active' = FALSE
                /\ begun' = begun
                /\ iteration_count' = iteration_count
           ELSE MaxIterations > 0 =>
                  /\ Len(stack') = Len(stack) + 1
                  /\ Top(stack').fn = "refine"
                  /\ Top(stack').rsteps = ss
    ]_vars

\* A loop runs with the block of the first of two steps with a trigger,
\* although the recipe has a block of its own.
C31_Witness ==
  /\ pc = "exec"
  /\ Len(stack) = 2 /\ Top(stack).fn = "refine"
  /\ Top(stack).step.id = "s1"
  /\ Cardinality(Triggered("s1")) = 2
  /\ recipe.refinement.nonempty
  /\ ~Steps[1].refinement.nonempty
  /\ Top(stack).rsteps = <<SubInner>>

\* C32: in a refinement iteration a substep that ends, with an error or
\* without, hands control back to the loop at the next substep, whatever its
\* on_failure policy; the loop takes its substeps in order, and after the
\* last one resolves the failing step's inputs again and dispatches the
\* failing step again.
C32_SubstepErrorsContinue ==
  [][ pc = "exec" =>
        /\ (Len(stack') < Len(stack) /\ stack' # <<>>) =>
             LET n == Len(stack')
             IN /\ stack[n].fn = "refine"
                /\ stack'[n] = [stack[n] EXCEPT !.sub = @ + 1]
                /\ pc' = "exec" /\ runError' = NoErr
        /\ (Top(stack).fn = "refine" /\ Top(stack).sub <= Len(Top(stack).rsteps)) =>
             /\ Top(stack).rsteps[Top(stack).sub].id \in begun'
             /\ lastCall' = lastCall
        /\ AtRedispatch =>
             /\ lastCall'.id = Top(stack).step.id
             /\ lastCall'.attempt = 0
             /\ lastCall'.inputs = Resolve(Top(stack).step.inputs, CtxOf(steps_output))
    ]_vars

\* The first of two substeps, with on_failure abort, has raised, and the
\* loop is at its second substep in the same iteration.
C32_Witness ==
  /\ pc = "exec"
  /\ Len(stack) = 2 /\ Top(stack).fn = "refine"
  /\ Len(Top(stack).rsteps) = 2 /\ Top(stack).sub = 2
  /\ Top(stack).rsteps[1].on_failure = "abort"
  /\ lastCall.id = Top(stack).rsteps[1].id
  /\ lastCall.err # NoErr

\* The step records of a tracked run that have status failed.
FailedRecords ==
  { id \in DOMAIN stepRecords : tracked /\ stepRecords[id].status = "failed" }

\* C33: when run() has returned for a tracked run, no step record is left
\* running: each is completed or failed, at most one is failed, and the
\* failed one is that of the step whose error failed the run, with that
\* error; a run failed by a step has such a record.
C33_RecordsFinalized ==
  (Returned /\ tracked) =>
    /\ \A id \in DOMAIN stepRecords :
         stepRecords[id].status \in {"completed", "failed"}
    /\ Cardinality(FailedRecords) <= 1
    /\ \A id \in FailedRecords :
         /\ result.success = VBool(FALSE)
         /\ id = Steps[stepIdx].id
         /\ stepRecords[id].error = runError
    /\ (result.success = VBool(FALSE) /\ runError # StoreErrorMsg) =>
         FailedRecords # {}

\* A tracked run has returned after the refinement of s1 was exhausted: the
\* record of s1 is failed with that error and there is no other record.
C33_Witness ==
  /\ Returned /\ tracked
  /\ DOMAIN stepRecords = {"s1"}
  /\ stepRecords["s1"].status = "failed"
  /\ stepRecords["s1"].error = ExhaustedMsg(MaxIterations)
  /\ "s1" \in DOMAIN iteration_count

\* The recipe steps with a gate and the given failure policies that have
\* finished without failing the run.
GatedFinished(policies) ==
  { i \in finished :
      /\ Steps[i].type = "tool" /\ Steps[i].hasTool
      /\ Steps[i].gate /\ Steps[i].on_failure \in policies }

\* The outputs committed for recipe step i.
CommittedOf(i) == steps_output[Steps[i].id].v.outputs.v

\* C34: a step with gate true and on_failure abort, retry or refine that has
\* finished without failing the run has committed outputs that do not fail
\* the gate: no passed that is falsy (an absent passed is read as the gate
\* reads it, as passing).
C34_GateVerdict ==
  \A i \in GatedFinished({"abort", "retry", "refine"}) :
    /\ Steps[i].id \in DOMAIN steps_output
    /\ ~GateFails(Steps[i], CommittedOf(i))

\* C34, the part that holds: with on_failure abort or refine the committed
\* outputs of a finished step do not fail the gate.
C34_GateHeldAbortRefine ==
  \A i \in GatedFinished({"abort", "refine"}) :
    /\ Steps[i].id \in DOMAIN steps_output
    /\ ~GateFails(Steps[i], CommittedOf(i))

\* C35: whatever a tool has returned gets the same verdict from the gate
\* check of a first dispatch and from the re-validation of the refinement
\* loop: outputs that pass the one pass the other, outputs without a passed
\* field included.
C35_SameVerdict ==
  \A id \in DOMAIN returned :
    \A i \in 1..Len(Steps) :
      Steps[i].gate =>
        (~GateFails(Steps[i], returned[id]) <=> RefinePasses(returned[id]))

\* C35, the part that holds: on outputs that have a passed field the two
\* checks agree; outputs without one pass the gate and fail the
\* re-validation.
C35_SameVerdictWithPassed ==
  \A id \in DOMAIN returned :
    \A i \in 1..Len(Steps) :
      Steps[i].gate =>
        IF "passed" \in DOMAIN returned[id]
        THEN ~GateFails(Steps[i], returned[id]) <=> RefinePasses(returned[id])
        ELSE ~GateFails(Steps[i], returned[id]) /\ ~RefinePasses(returned[id])

\* The recipe steps with a tool that have finished without failing the run
\* and whose on_failure is in the given set.
ToolFinished(policies) ==
  { i \in finished :
      Steps[i].type = "tool" /\ Steps[i].hasTool /\ Steps[i].on_failure \in policies }

\* The one dispatch of recipe step i did not fail: the tool returned, and
\* what it returned does not fail the step's gate.
DispatchHeld(i) ==
  /\ Steps[i].id \in DOMAIN returned
  /\ ~GateFails(Steps[i], returned[Steps[i].id])

\* C36: abort is the default policy: a step whose on_failure is unset or is
\* any value other than skip, retry or refine fails the run when its tool
\* raises or its gate fails, so such a step finishes only if its dispatch
\* did not fail.
C36_AbortDefault ==
  \A i \in finished :
    (/\ Steps[i].type = "tool" /\ Steps[i].hasTool
     /\ Steps[i].on_failure \notin {"skip", "retry", "refine"}) => DispatchHeld(i)

\* C36, the part that holds: a step whose on_failure is abort or unset
\* finishes only if its dispatch did not fail.
C36_AbortFails == \A i \in ToolFinished({"abort"}) : DispatchHeld(i)

\* The recipe's approval gates that have an option.
Gates ==
  { i \in 1..Len(Steps) :
      /\ Steps[i].type = "approval_gate"
      /\ (Steps[i].options = <<>> \/ Steps[i].options[1] # <<>>) }

C38_NoSelfNesting ==
  \A m \in Loops : \A n \in Loops :
    m < n => (stack[m].step.id # stack[n].step.id \/ stack[m].rsteps # stack[n].rsteps)

\* C38, the part that holds: the number of loops active at one time never
\* passes the interpreter's recursion limit, and every loop makes at most
\* max_iterations passes.
C38_DepthWithinLimit ==
  /\ Depth(stack) <= MaxDepth
  /\ \A n \in Loops : stack[n].iter <= stack[n].N /\ stack[n].N = MaxIterations

\* The final component of a path.
Basename(path) == path[Len(path)]

\* What {{workflow.run_id}} and {{workflow.run_dir}} resolve to.
WorkflowRunId ==
  Resolve(VStr(Placeholder(<<"workflow", ".", "run_id">>)), CtxOf(steps_output)).v
WorkflowRunDir ==
  Resolve(VStr(Placeholder(<<"workflow", ".", "run_dir">>)), CtxOf(steps_output)).v

\* C39: the run_id of the returned result, the value of {{workflow.run_id}},
\* the id of the run record (for a tracked run, the id start_run returned)
\* and the final component of run_dir are one and the same identifier, with
\* and without persistence.
C39_RunIdConsistent ==
  Returned =>
    /\ result.run_id = VStr(<<run_id>>)
    /\ WorkflowRunId = <<run_id>>
    /\ Basename(result.run_dir.v) = run_id
    /\ Basename(WorkflowRunDir) = run_id

\* C39, the part that holds: result and {{workflow.run_id}} carry ctx.run_id,
\* which for a tracked run is the id of the run record; run_dir is named
\* after the id the context drew when it was created, which is ctx.run_id
\* only for an untracked run.
C39_RunIdOfRecord ==
  Returned =>
    /\ result.run_id = VStr(<<run_id>>)
    /\ WorkflowRunId = <<run_id>>
    /\ Basename(result.run_dir.v) = dir_id
    /\ Basename(WorkflowRunDir) = dir_id
    /\ ~tracked => dir_id = run_id

\* The cleanup actions processed so far that belong to one of the two lists.
Processed(m) == SelectSeq(cleaned, LAMBDA e : e.list = m)
OutcomeList == IF result.success = VBool(TRUE) THEN "success" ELSE "failure"
OtherList(m) == IF m = "success" THEN "failure" ELSE "success"

\* C40: in every run exactly one of the two cleanup lists is processed, once
\* and in order: on_success exactly when the result has success true,
\* on_failure exactly when it has success false; no action of the other list
\* is processed, and a run whose steps all finished and whose on_success
\* cleanup has finished is reported as a success.
C40_OneCleanupList ==
  Returned =>
    /\ Len(Processed(OutcomeList)) = Len(ListOf(OutcomeList))
    /\ \A n \in 1..Len(Processed(OutcomeList)) : Processed(OutcomeList)[n].idx = n
    /\ Processed(OtherList(OutcomeList)) = <<>>
    /\ (\A i \in 1..Len(Steps) : i \in finished) => result.success = VBool(TRUE)

\* C40, the part that holds: the list matching the outcome is processed once
\* and in order, and never before the other one; a successful result has no
\* on_failure action behind it; on_success actions are processed only after
\* every step finished, and the two lists are both processed only in a
\* tracked run whose complete_run raised after the on_success cleanup.
C40_OutcomeListLast ==
  Returned =>
    /\ Len(Processed(OutcomeList)) = Len(ListOf(OutcomeList))
    /\ \A n \in 1..Len(Processed(OutcomeList)) : Processed(OutcomeList)[n].idx = n
    /\ \A n \in 1..Len(Processed(OtherList(OutcomeList))) :
         /\ cleaned[n].list = OtherList(OutcomeList)
         /\ cleaned[n].idx = n
    /\ result.success = VBool(TRUE) => Processed("failure") = <<>>
    /\ Processed("success") # <<>> => \A i \in 1..Len(Steps) : i \in finished
    /\ (result.success = VBool(FALSE) /\ Processed("success") # <<>>) =>
         /\ tracked
         /\ runError = StoreErrorMsg
         /\ Len(Processed("success")) = Len(ListOf("success"))
    /\ ((\A i \in 1..Len(Steps) : i \in finished) /\ result.success = VBool(FALSE)) =>
         tracked /\ runError = StoreErrorMsg
====
